---- MODULE Spec2Model ----
(***************************************************************************)
(* A model of the fanzine issue-designation parser of                      *)
(* FanzineIssueSpecPackage.py and FanzineDateTime.py.                      *)
(*                                                                         *)
(* Python strings are TLA+ strings; a character is a string of length 1.   *)
(* An Optional value is None (the empty tuple) or Some(v) (a 1-tuple).     *)
(* A function that may raise returns [exc, val]: exc names the exception   *)
(* ("" when the call returned normally) and val is the value returned.     *)
(***************************************************************************)
EXTENDS Integers, Sequences, FiniteSets, TLC

VARIABLES pc, op, arg, ret, tokens, fislist

vars == <<pc, op, arg, ret, tokens, fislist>>

----------------------------------------------------------------------------
(* Optional values and call results                                        *)

None == <<>>

Some(v) == <<v>>

Val(o) == o[1]

Ok(v) == [exc |-> "", val |-> v]

Raise(e, v) == [exc |-> e, val |-> v]

----------------------------------------------------------------------------
(* Characters and the string operations of Python the parser uses          *)

DigitStr == "0123456789"

UpperStr == "ABCDEFGHIJKLMNOPQRSTUVWXYZ"

LowerStr == "abcdefghijklmnopqrstuvwxyz"

PunctStr == " ,-/#.'?()_"

Ch(s, i) == SubSeq(s, i, i)

CharsOf(s) == {Ch(s, i) : i \in 1..Len(s)}

Digits == CharsOf(DigitStr)

Uppers == CharsOf(UpperStr)

Lowers == CharsOf(LowerStr)

Letters == Uppers \cup Lowers

\* every character an input of the model can hold
AnyChar == Letters \cup Digits \cup CharsOf(PunctStr)

\* \s : the inputs hold no other whitespace than the blank
SpaceChars == {" "}

\* \w
WordChars == Letters \cup Digits \cup {"_"}

IndexIn(s, c) == CHOOSE i \in 1..Len(s) : Ch(s, i) = c

DigitVal(c) == IndexIn(DigitStr, c) - 1

LowerCh(c) == IF c \in Uppers THEN Ch(LowerStr, IndexIn(UpperStr, c)) ELSE c

RECURSIVE ToLower(_)
\* str.lower()
ToLower(s) == IF s = "" THEN "" ELSE LowerCh(Ch(s, 1)) \o ToLower(Tail(s))

AllIn(s, cls) == \A i \in 1..Len(s) : Ch(s, i) \in cls

\* str.isdigit() on a non-empty string
IsDigitStr(s) == s # "" /\ AllIn(s, Digits)

RECURSIVE StrToNat(_)
\* int(s) for a string of decimal digits
StrToNat(s) == IF s = "" THEN 0 ELSE StrToNat(SubSeq(s, 1, Len(s) - 1)) * 10 + DigitVal(Ch(s, Len(s)))

RECURSIVE NatToStr(_)
\* str(n) for n >= 0
NatToStr(n) == IF n < 10 THEN Ch(DigitStr, n + 1) ELSE NatToStr(n \div 10) \o Ch(DigitStr, (n % 10) + 1)

\* str(n) for an int
IntToStr(n) == IF n < 0 THEN "-" \o NatToStr(0 - n) ELSE NatToStr(n)

RECURSIVE LStrip(_)
LStrip(s) == IF s # "" /\ Ch(s, 1) \in SpaceChars THEN LStrip(Tail(s)) ELSE s

RECURSIVE RStrip(_)
RStrip(s) == IF s # "" /\ Ch(s, Len(s)) \in SpaceChars THEN RStrip(SubSeq(s, 1, Len(s) - 1)) ELSE s

\* str.strip()
Strip(s) == RStrip(LStrip(s))

StartsWith(s, p) == Len(p) <= Len(s) /\ SubSeq(s, 1, Len(p)) = p

\* str.removesuffix(x)
RemoveSuffix(s, x) == IF x # "" /\ Len(x) <= Len(s) /\ SubSeq(s, Len(s) - Len(x) + 1, Len(s)) = x THEN SubSeq(s, 1, Len(s) - Len(x)) ELSE s

RECURSIVE Replace(_, _, _)
\* str.replace(old, new) for a non-empty old: left to right, non-overlapping
Replace(s, old, new) == IF Len(s) < Len(old) THEN s ELSE IF StartsWith(s, old) THEN new \o Replace(SubSeq(s, Len(old) + 1, Len(s)), old, new) ELSE Ch(s, 1) \o Replace(Tail(s), old, new)

Contains(s, c) == \E i \in 1..Len(s) : Ch(s, i) = c

RECURSIVE SplitOn(_, _)
\* str.split(sep) for a one-character sep: a tuple of strings, never empty
SplitOn(s, sep) == IF ~Contains(s, sep) THEN <<s>> ELSE LET i == CHOOSE j \in 1..Len(s) : Ch(s, j) = sep /\ \A k \in 1..(j - 1) : Ch(s, k) # sep IN <<SubSeq(s, 1, i - 1)>> \o SplitOn(SubSeq(s, i + 1, Len(s)), sep)

\* str.split(): split on runs of whitespace, no empty strings
SplitWS(s) == SelectSeq(SplitOn(s, " "), LAMBDA t : t # "")

RECURSIVE Join(_, _)
\* sep.join(list)
Join(list, sep) == IF Len(list) = 0 THEN "" ELSE IF Len(list) = 1 THEN list[1] ELSE list[1] \o sep \o Join(Tail(list), sep)

\* int(s) succeeds: optional blanks, an optional sign, then decimal digits
IsIntText(s) == IF Strip(s) # "" /\ Ch(Strip(s), 1) \in {"+", "-"} THEN IsDigitStr(Tail(Strip(s))) ELSE IsDigitStr(Strip(s))

\* the value int(s) returns when IsIntText(s)
IntOfText(s) == IF Ch(Strip(s), 1) = "-" THEN 0 - StrToNat(Tail(Strip(s))) ELSE IF Ch(Strip(s), 1) = "+" THEN StrToNat(Tail(Strip(s))) ELSE StrToNat(Strip(s))

----------------------------------------------------------------------------
(* Regular expressions.  Every pattern of the parser is a sequence of      *)
(* items, each a character class with a repetition; re.match tries the     *)
(* repetition counts of an item in the order of preference (greedy: most   *)
(* first, lazy: fewest first, an alternation in the order written) and     *)
(* backtracks to the next count when the rest of the pattern fails.        *)
(* grp is the number of the capture group the item lies in, 0 for none.    *)

ReItem(cls, mode, lo, hi, alts, grp) == [cls |-> cls, mode |-> mode, lo |-> lo, hi |-> hi, alts |-> alts, grp |-> grp]

\* x
ReOne(cls, grp) == ReItem(cls, "greedy", 1, 1, <<>>, grp)

\* x?
ReOpt(cls, grp) == ReItem(cls, "greedy", 0, 1, <<>>, grp)

\* x+
RePlus(cls, grp) == ReItem(cls, "greedy", 1, 0 - 1, <<>>, grp)

\* x*
ReStar(cls, grp) == ReItem(cls, "greedy", 0, 0 - 1, <<>>, grp)

\* x*?
ReLazyStar(cls, grp) == ReItem(cls, "lazy", 0, 0 - 1, <<>>, grp)

\* x+?
ReLazyPlus(cls, grp) == ReItem(cls, "lazy", 1, 0 - 1, <<>>, grp)

\* x{lo,hi}
ReRange(cls, lo, hi, grp) == ReItem(cls, "greedy", lo, hi, <<>>, grp)

\* x{a}|x{b}: the counts of alts, in the order written
ReAlt(cls, alts, grp) == ReItem(cls, "alt", 0, 0, alts, grp)

\* the items of a literal text
ReLit(text) == [i \in 1..Len(text) |-> ReOne({Ch(text, i)}, 0)]

\* the repetition counts to try for an item when avail characters are left
RePrefs(e, avail) == IF e.mode = "alt" THEN e.alts ELSE LET top == IF e.hi < 0 \/ e.hi > avail THEN avail ELSE e.hi IN LET n == IF top < e.lo THEN 0 ELSE top - e.lo + 1 IN IF e.mode = "greedy" THEN [j \in 1..n |-> top - j + 1] ELSE [j \in 1..n |-> e.lo + j - 1]

ReFail == [ok |-> FALSE, counts |-> <<>>]

RECURSIVE ReTry(_, _, _, _, _, _)
\* match items i.. of the pattern at position pos of s, trying the counts
\* prefs[j..] for item i; anchored: the pattern ends in $
ReTry(items, anchored, s, i, pos, j) == IF i > Len(items) THEN [ok |-> (~anchored \/ pos = Len(s) + 1), counts |-> <<>>] ELSE LET prefs == RePrefs(items[i], Len(s) - pos + 1) IN IF j > Len(prefs) THEN ReFail ELSE LET k == prefs[j] IN IF k <= Len(s) - pos + 1 /\ AllIn(SubSeq(s, pos, pos + k - 1), items[i].cls) THEN LET rest == ReTry(items, anchored, s, i + 1, pos + k, 1) IN IF rest.ok THEN [ok |-> TRUE, counts |-> <<k>> \o rest.counts] ELSE ReTry(items, anchored, s, i, pos, j + 1) ELSE ReTry(items, anchored, s, i, pos, j + 1)

\* re.match(pattern, s): [ok, counts], counts[i] the length item i matched
ReMatch(pat, s) == ReTry(pat.items, pat.anchored, s, 1, 1, 1)

RECURSIVE ReGroupFrom(_, _, _, _, _, _)
ReGroupFrom(items, counts, s, g, i, pos) == IF i > Len(items) THEN "" ELSE (IF items[i].grp = g THEN SubSeq(s, pos, pos + counts[i] - 1) ELSE "") \o ReGroupFrom(items, counts, s, g, i + 1, pos + counts[i])

\* m.groups() of m=re.match(pat, s): ok when there is a match, g the texts of
\* the groups 1 to 3 (a pattern has no more)
ReGroupsOf(pat, m, s) == [ok |-> m.ok, g |-> [k \in 1..3 |-> IF m.ok THEN ReGroupFrom(pat.items, m.counts, s, k, 1, 1) ELSE ""]]

ReGroups(pat, s) == ReGroupsOf(pat, ReMatch(pat, s), s)

Re(items, anchored) == [items |-> items, anchored |-> anchored]

----------------------------------------------------------------------------
(* Dynamically typed arguments: None, an int, a str or a tuple             *)
(* (Optional int, Optional str)                                            *)

PyNone == [t |-> "none", i |-> 0, s |-> "", ti |-> None, ts |-> None]

PyInt(n) == [t |-> "int", i |-> n, s |-> "", ti |-> None, ts |-> None]

PyStr(x) == [t |-> "str", i |-> 0, s |-> x, ti |-> None, ts |-> None]

PyTuple(oi, os) == [t |-> "tuple", i |-> 0, s |-> "", ti |-> oi, ts |-> os]

\* an Optional int as an argument
PyOpt(o) == IF o = None THEN PyNone ELSE PyInt(Val(o))

----------------------------------------------------------------------------
(* Year Normalizer                                                         *)

\* years below the pivot are 20yy, the others 19yy
YearPivot == 33

\* numbers above this are taken to be years already
YearMax2Digit == 100

FannishYearLow == 1860

FannishYearHigh == 2100

\* YearPivoted with the pivot moved from 33 to 50
YearPivoted50(y) == IF y > YearMax2Digit THEN y ELSE IF y < 50 THEN y + 2000 ELSE y + 1900

\* the int branch of YearAs4Digits: "We accept 2-digit years from 1933 to 2032"
YearPivoted(y) == IF y > YearMax2Digit THEN y ELSE IF y < YearPivot THEN y + 2000 ELSE y + 1900

\* YearAs4Digits: None stays None, a str that is no int comes back as it is
YearAs4Digits(year) == IF year.t = "none" THEN PyNone ELSE IF year.t = "str" /\ ~IsIntText(year.s) THEN year ELSE PyInt(YearPivoted(IF year.t = "str" THEN IntOfText(year.s) ELSE year.i))

\* "if 1860 < y < 2100" of the expanded year y: comparing a str with 1860 is a
\* TypeError
FannishYearText(y) == IF y.t = "str" THEN Raise("TypeError", "") ELSE IF FannishYearLow < y.i /\ y.i < FannishYearHigh THEN Ok(IntToStr(y.i)) ELSE Ok("0")

\* ValidFannishYear: the str of the expanded year, or "0"
ValidFannishYear(ytext) == IF ytext.t = "none" THEN Ok("0") ELSE FannishYearText(YearAs4Digits(ytext))

----------------------------------------------------------------------------
(* Day Bounder                                                             *)

\* MonthLength with a February of 29 days
MonthLengthLeap(m) == IF m = 2 THEN Some(29) ELSE IF m \in {4, 6, 9, 11} THEN Some(30) ELSE IF m \in {1, 3, 5, 7, 8, 10, 12} THEN Some(31) ELSE None

\* MonthLength: None for a month outside 1..12 (the function falls off its end)
MonthLength(m) == IF m = 2 THEN Some(28) ELSE IF m \in {4, 6, 9, 11} THEN Some(30) ELSE IF m \in {1, 3, 5, 7, 8, 10, 12} THEN Some(31) ELSE None

DayTypoLow == -10

DayTypoHigh == 60

RECURSIVE BoundDayBack(_, _, _)
\* the loop for d < 1: step back a month at a time, adding its length
BoundDayBack(d, m, y) == IF ~(d < 1) THEN Ok(<<Some(d), Some(m), y>>) ELSE LET wrap == (m - 1) < 1 IN LET m2 == IF wrap THEN 12 ELSE m - 1 IN IF wrap /\ y = None THEN Raise("TypeError", <<None, None, None>>) ELSE IF MonthLength(m2) = None THEN Raise("TypeError", <<None, None, None>>) ELSE BoundDayBack(d + Val(MonthLength(m2)), m2, IF wrap THEN Some(Val(y) - 1) ELSE y)

\* BoundDayForward with the while loop written as an if: one month at most
BoundDayForwardOnce(d, m, y) == IF MonthLength(m) = None THEN Raise("TypeError", <<None, None, None>>) ELSE IF ~(d > Val(MonthLength(m))) THEN Ok(<<Some(d), Some(m), y>>) ELSE LET wrap == (m + 1) > 12 IN IF wrap /\ y = None THEN Raise("TypeError", <<None, None, None>>) ELSE Ok(<<Some(d - Val(MonthLength(m))), Some(IF wrap THEN 1 ELSE m + 1), IF wrap THEN Some(Val(y) + 1) ELSE y>>)

RECURSIVE BoundDayForward(_, _, _)
\* the loop for a day past the end of the month: subtract the month's length, step on
BoundDayForward(d, m, y) == IF MonthLength(m) = None THEN Raise("TypeError", <<None, None, None>>) ELSE IF ~(d > Val(MonthLength(m))) THEN Ok(<<Some(d), Some(m), y>>) ELSE LET wrap == (m + 1) > 12 IN IF wrap /\ y = None THEN Raise("TypeError", <<None, None, None>>) ELSE BoundDayForward(d - Val(MonthLength(m)), IF wrap THEN 1 ELSE m + 1, IF wrap THEN Some(Val(y) + 1) ELSE y)

\* BoundDay(d, m, y): d, m, y are Optional ints; returns the triple (d, m, y)
BoundDay(d, m, y) == IF d = None \/ m = None THEN Ok(<<None, None, None>>) ELSE IF Val(d) < DayTypoLow \/ Val(d) > DayTypoHigh THEN Ok(<<None, None, None>>) ELSE IF 1 <= Val(d) /\ MonthLength(Val(m)) = None THEN Raise("TypeError", <<None, None, None>>) ELSE IF 1 <= Val(d) /\ Val(d) <= Val(MonthLength(Val(m))) THEN Ok(<<d, m, y>>) ELSE IF Val(d) < 1 THEN BoundDayBack(Val(d), Val(m), y) ELSE BoundDayForward(Val(d), Val(m), y)

----------------------------------------------------------------------------
(* Lexicons                                                                *)

\* monthConversionTable of MonthNameToInt
MonthConversionTable ==
    ("jan" :> 1) @@ ("january" :> 1) @@ ("1" :> 1) @@ ("feb" :> 2) @@ ("february" :> 2) @@
    ("feburary" :> 2) @@ ("2" :> 2) @@ ("mar" :> 3) @@ ("march" :> 3) @@ ("3" :> 3) @@ ("apr" :> 4) @@
    ("april" :> 4) @@ ("4" :> 4) @@ ("may" :> 5) @@ ("5" :> 5) @@ ("jun" :> 6) @@ ("june" :> 6) @@
    ("6" :> 6) @@ ("jul" :> 7) @@ ("july" :> 7) @@ ("7" :> 7) @@ ("aug" :> 8) @@ ("august" :> 8) @@
    ("8" :> 8) @@ ("sep" :> 9) @@ ("sept" :> 9) @@ ("september" :> 9) @@ ("9" :> 9) @@ ("oct" :> 10) @@
    ("october" :> 10) @@ ("10" :> 10) @@ ("nov" :> 11) @@ ("november" :> 11) @@ ("11" :> 11) @@
    ("dec" :> 12) @@ ("december" :> 12) @@ ("12" :> 12) @@ ("1q" :> 1) @@ ("q1" :> 1) @@ ("4q" :> 4) @@
    ("q2" :> 4) @@ ("2q" :> 4) @@ ("7q" :> 7) @@ ("q3" :> 7) @@ ("3q" :> 7) @@ ("10q" :> 10) @@
    ("q4" :> 10) @@ ("spring" :> 4) @@ ("spr" :> 4) @@ ("summer" :> 7) @@ ("sum" :> 7) @@ ("fall" :> 10) @@
    ("autumn" :> 10) @@ ("fal" :> 10) @@ ("winter" :> 1) @@ ("win" :> 1) @@ ("xmas" :> 12) @@
    ("christmas" :> 12)

\* namedDayConverstionTable of InterpretNamedDay (FanzineIssueSpecPackage.py): (month, day)
NamedDayTable ==
    ("unknown" :> <<None, None>>) @@ ("unknown ?" :> <<None, None>>) @@
    ("new year's day" :> <<Some(1), Some(1)>>) @@ ("edgar allen poe's birthday" :> <<Some(1), Some(19)>>) @@
    ("edgar allan poe's birthday" :> <<Some(1), Some(19)>>) @@
    ("edgar alan poe's birthday" :> <<Some(1), Some(19)>>) @@ ("groundhog day" :> <<Some(2), Some(4)>>) @@
    ("daniel yergin day" :> <<Some(2), Some(6)>>) @@
    ("canadian national flag day" :> <<Some(2), Some(15)>>) @@
    ("national flag day" :> <<Some(2), Some(15)>>) @@ ("chinese new year" :> <<Some(2), Some(15)>>) @@
    ("lunar new year" :> <<Some(2), Some(15)>>) @@ ("leap day" :> <<Some(2), Some(29)>>) @@
    ("Late february or early march" :> <<Some(3), None>>) @@ ("ides of march" :> <<Some(3), Some(15)>>) @@
    ("st urho's day" :> <<Some(3), Some(16)>>) @@ ("st. urho's day" :> <<Some(3), Some(16)>>) @@
    ("saint urho's day" :> <<Some(3), Some(16)>>) @@ ("vernal equinox" :> <<Some(3), Some(20)>>) @@
    ("spring equinox" :> <<Some(3), Some(20)>>) @@ ("april fool's day" :> <<Some(4), Some(1)>>) @@
    ("good friday" :> <<Some(4), Some(8)>>) @@ ("easter" :> <<Some(4), Some(10)>>) @@
    ("national garlic day" :> <<Some(4), Some(19)>>) @@ ("world free press day" :> <<Some(5), Some(3)>>) @@
    ("cinco de mayo" :> <<Some(5), Some(5)>>) @@ ("victoria day" :> <<Some(5), Some(22)>>) @@
    ("world no tobacco day" :> <<Some(5), Some(31)>>) @@ ("world environment day" :> <<Some(6), Some(5)>>) @@
    ("great flood" :> <<Some(6), Some(19)>>) @@ ("summer solstice" :> <<Some(6), Some(21)>>) @@
    ("world wide party" :> <<Some(6), Some(21)>>) @@ ("canada day" :> <<Some(7), Some(1)>>) @@
    ("stampede" :> <<Some(7), Some(10)>>) @@ ("stampede rodeo" :> <<Some(7), Some(10)>>) @@
    ("stampede parade" :> <<Some(7), Some(10)>>) @@
    ("system administrator appreciation day" :> <<Some(7), Some(25)>>) @@
    ("apres le deluge" :> <<Some(8), Some(1)>>) @@ ("august 14 to 16" :> <<Some(8), Some(15)>>) @@
    ("international whale shark day" :> <<Some(8), Some(30)>>) @@ ("labor day" :> <<Some(9), Some(3)>>) @@
    ("labour day" :> <<Some(9), Some(3)>>) @@ ("september 15 to 18" :> <<Some(9), Some(17)>>) @@
    ("september 17 to 20" :> <<Some(9), Some(19)>>) @@ ("autumn equinox" :> <<Some(9), Some(20)>>) @@
    ("fall equinox" :> <<Some(9), Some(20)>>) @@ ("(canadian) thanksgiving" :> <<Some(10), Some(15)>>) @@
    ("halloween" :> <<Some(10), Some(31)>>) @@ ("october (halloween)" :> <<Some(10), Some(31)>>) @@
    ("remembrance day" :> <<Some(11), Some(11)>>) @@ ("rememberance day" :> <<Some(11), Some(11)>>) @@
    ("thanksgiving" :> <<Some(11), Some(24)>>) @@ ("around the end" :> <<Some(12), None>>) @@
    ("november (december)" :> <<Some(12), None>>) @@
    ("before christmas december" :> <<Some(12), Some(15)>>) @@ ("saturnalia" :> <<Some(12), Some(21)>>) @@
    ("winter solstice" :> <<Some(12), Some(21)>>) @@ ("christmas" :> <<Some(12), Some(25)>>) @@
    ("christmas issue" :> <<Some(12), Some(25)>>) @@
    ("christmas issue december" :> <<Some(12), Some(25)>>) @@
    ("xmas ish the end of december" :> <<Some(12), Some(25)>>) @@ ("boxing day" :> <<Some(12), Some(26)>>) @@
    ("hogmanay" :> <<Some(12), Some(31)>>) @@ ("auld lang syne" :> <<Some(12), Some(31)>>) @@
    ("over year end" :> <<Some(12), Some(31)>>)

\* the entries FanzineDateTime.py adds to the table
NamedDayTableAdded ==
    ("solar eclipse" :> <<Some(4), Some(8)>>) @@ ("calgary stampede parade" :> <<Some(7), Some(10)>>)

\* conversionTable of InterpretRelativeWords
RelativeWordsTable ==
    ("start of" :> 1) @@ ("early" :> 7) @@ ("early in" :> 7) @@ ("mid" :> 15) @@ ("middle" :> 15) @@
    ("?" :> 15) @@ ("middle late" :> 19) @@ ("late" :> 24) @@ ("end of" :> 30) @@ ("the end of" :> 30) @@
    ("around the end of" :> 30)

\* ^([a-z]+)[-/]([a-z]+)$
P_TwoMonths == Re(<<RePlus(Lowers, 1), ReOne({"-", "/"}, 0), RePlus(Lowers, 2)>>, TRUE)

\* table[key] of a dict, None for a text that is no key
Lookup(table, key) == IF key \in DOMAIN table THEN Some(table[key]) ELSE None

RECURSIVE MonthNameToInt(_)
\* of the text in lower case without blanks and its match m with
\* ^([a-z]+)[-/]([a-z]+)$: the rounded-up mean of two months, else the table
MonthNameOfTwo(t, m) == IF m.ok /\ MonthNameToInt(m.g[1]) # None /\ MonthNameToInt(m.g[2]) # None THEN Some((Val(MonthNameToInt(m.g[1])) + Val(MonthNameToInt(m.g[2])) + 1) \div 2) ELSE Lookup(MonthConversionTable, t)

\* MonthNameToInt(text): the month number, or None
MonthNameToInt(text) == MonthNameOfTwo(ToLower(Replace(text, " ", "")), ReGroups(P_TwoMonths, ToLower(Replace(text, " ", ""))))

\* InterpretMonth(monthData): RemoveHTMLDebris leaves the markup-free texts of
\* the model as they are
InterpretMonth(monthData) == IF monthData.t = "none" THEN None ELSE IF monthData.t = "int" THEN Some(monthData.i) ELSE IF Len(Strip(monthData.s)) = 0 THEN None ELSE MonthNameToInt(RemoveSuffix(monthData.s, "."))

\* InterpretNamedDay(dayString): Some(<<month, day>>) or None; fdt: the table
\* of FanzineDateTime.py
InterpretNamedDay(dayString, fdt) == Lookup((IF fdt THEN NamedDayTableAdded ELSE <<>>) @@ NamedDayTable, Replace(ToLower(dayString), ",", ""))

\* InterpretRelativeWords(daystring): the day of the month, or None
InterpretRelativeWords(daystring) == Lookup(RelativeWordsTable, ToLower(Replace(Replace(daystring, ",", " "), "-", " ")))

\* InterpretDay(dayData): an int, or the first element of a named day's pair
InterpretDay(dayData, fdt) == LET First(d) == IF d = None THEN None ELSE Val(d)[1] IN IF dayData.t = "none" THEN None ELSE IF dayData.t = "int" THEN Some(dayData.i) ELSE IF Len(Strip(dayData.s)) = 0 THEN None ELSE IF IsIntText(dayData.s) THEN Some(IntOfText(dayData.s)) ELSE First(InterpretNamedDay(dayData.s, fdt))

\* the three cases of InterpretMonthDay, m1 and m2 the months of the pieces;
\* pieces[1] of a single piece that is no month is an IndexError
InterpretMonthDayCases(pieces, m1, m2) == IF Len(pieces) = 1 /\ m1 # None THEN Ok(Some(<<Val(m1), None>>)) ELSE IF Len(pieces) > 2 THEN Ok(None) ELSE IF Len(pieces) = 1 THEN Raise("IndexError", None) ELSE IF m1 # None /\ IsIntText(pieces[2]) THEN Ok(Some(<<Val(m1), Some(IntOfText(pieces[2]))>>)) ELSE IF m2 # None /\ IsIntText(pieces[1]) THEN Ok(Some(<<Val(m2), Some(IntOfText(pieces[1]))>>)) ELSE Ok(None)

\* pieces=s.split(" ")
InterpretMonthDayPieces(pieces) == InterpretMonthDayCases(pieces, MonthNameToInt(pieces[1]), IF Len(pieces) > 1 THEN MonthNameToInt(pieces[2]) ELSE None)

\* InterpretMonthDay(s): Some(<<month, Optional day>>) or None
InterpretMonthDay(s) == InterpretMonthDayPieces(SplitOn(Replace(Replace(Replace(RemoveSuffix(Strip(s), ","), "    ", " "), "   ", " "), "  ", " "), " "))

\* the month length ValidateDay uses: February has 29 days when year%4 == 0 and
\* year%400 != 0
ValidateDayLength(m, year) == IF year # None /\ Val(year) % 4 = 0 /\ Val(year) % 400 # 0 /\ m = 2 THEN Some(29) ELSE MonthLength(m)

\* ValidateDay of FanzineIssueSpecPackage.py: 0 < d <= None is a TypeError
ValidateDayISP(d, m, year) == IF ~(0 < d) THEN Ok(FALSE) ELSE IF ValidateDayLength(m, year) = None THEN Raise("TypeError", FALSE) ELSE Ok(d <= Val(ValidateDayLength(m, year)))

\* ValidateDay of FanzineDateTime.py: a month without a length is not valid
ValidateDayFDT(d, m, year) == IF ValidateDayLength(m, year) = None THEN Ok(FALSE) ELSE Ok(0 < d /\ d <= Val(ValidateDayLength(m, year)))

ValidateDay(d, m, year, fdt) == IF fdt THEN ValidateDayFDT(d, m, year) ELSE ValidateDayISP(d, m, year)

----------------------------------------------------------------------------
(* FanzineDate                                                             *)

\* FanzineDate(): _Year, _Month, _MonthText, _Day, _DayText, _MonthDayText
EmptyDate == [Year |-> None, Month |-> None, MonthText |-> None, Day |-> None, DayText |-> None, MonthDayText |-> None]

\* ToNumeric(val) of a str: an int text gives the int; the other texts the
\* model holds are no numbers and give None
ToNumericText(x) == IF IsIntText(x) THEN Some(IntOfText(x)) ELSE None

\* the Year setter
FanzineDateSetYear(self, val) == LET Set(y) == [self EXCEPT !.Year = IF y.t = "int" THEN Some(y.i) ELSE IF y.t = "str" THEN ToNumericText(y.s) ELSE None] IN Set(YearAs4Digits(val))

\* the Month setter
FanzineDateSetMonth(self, val) == IF val.t = "str" THEN [self EXCEPT !.Month = InterpretMonth(val), !.MonthText = IF Len(val.s) > 0 THEN Some(val.s) ELSE None] ELSE IF val.t = "tuple" THEN [self EXCEPT !.Month = val.ti, !.MonthText = val.ts] ELSE [self EXCEPT !.Month = IF val.t = "int" THEN Some(val.i) ELSE None, !.MonthText = None]

\* the Day setter
FanzineDateSetDay(self, val) == IF val.t = "str" THEN [self EXCEPT !.Day = IF Len(val.s) > 0 THEN ToNumericText(val.s) ELSE None, !.DayText = IF Len(val.s) > 0 THEN Some(val.s) ELSE None] ELSE IF val.t = "tuple" THEN [self EXCEPT !.Day = val.ti, !.DayText = val.ts] ELSE [self EXCEPT !.Day = IF val.t = "int" THEN Some(val.i) ELSE None, !.DayText = None]

\* self.Month=Month, and self.Month=InterpretMonth(MonthText) "if Month is None
\* and MonthText is not None": the second assignment replaces the first
FanzineDateInitMonth(self, Month, MonthText) == FanzineDateSetMonth(self, IF Month.t = "none" /\ MonthText # None THEN PyOpt(InterpretMonth(PyStr(Val(MonthText)))) ELSE Month)

\* the four cases that assign self.Day; with neither Day nor DayText it stays None
FanzineDateInitDay(self, Day, DayText, fdt) == IF Day.t = "none" /\ DayText = None THEN self ELSE FanzineDateSetDay(self, IF Day.t = "tuple" THEN Day ELSE IF Day.t # "none" /\ DayText # None THEN PyTuple(IF Day.t = "int" THEN Some(Day.i) ELSE None, DayText) ELSE IF Day.t # "none" THEN Day ELSE PyOpt(InterpretDay(PyStr(Val(DayText)), fdt)))

\* __init__(Year, Month, MonthText, Day, DayText, MonthDayText) without DateTime
\* (fdt: the class of FanzineDateTime.py);
\* MonthText and DayText are Optional strs, the others dynamically typed.
\* Month is rebound to the tuple (Month, MonthText) before it is tested for
\* None, so the month is never computed from MonthText alone
FanzineDateInit(Year, Month, MonthText, Day, DayText, MonthDayText, fdt) == [FanzineDateInitDay(FanzineDateInitMonth(FanzineDateSetYear(EmptyDate, Year), IF Month.t # "tuple" /\ MonthText # None THEN PyTuple(IF Month.t = "int" THEN Some(Month.i) ELSE None, MonthText) ELSE Month, MonthText), Day, DayText, fdt) EXCEPT !.MonthDayText = MonthDayText]

\* IsEmpty()
FanzineDateIsEmpty(self) == ~(\/ (self.DayText # None /\ Len(Val(self.DayText)) > 0) \/ self.Day # None \/ self.Month # None \/ self.Year # None \/ (self.MonthText # None /\ Len(Val(self.MonthText)) > 0))

\* __eq__ with the MonthText compared as well
FanzineDateEqTexts(self, other) == IF FanzineDateIsEmpty(self) /\ FanzineDateIsEmpty(other) THEN TRUE ELSE IF self.Year = None /\ self.Month = None /\ self.Day = None THEN FALSE ELSE IF other.Year = None /\ other.Month = None /\ other.Day = None THEN FALSE ELSE self.Year = other.Year /\ self.Month = other.Month /\ self.Day = other.Day /\ self.MonthText = other.MonthText

\* FanzineDate.__eq__ of two dates: "Empty dates are equal"; "If either date is
\* entirely None, it's not equal"; else year, month and day are compared
FanzineDateEq(self, other) == IF FanzineDateIsEmpty(self) /\ FanzineDateIsEmpty(other) THEN TRUE ELSE IF self.Year = None /\ self.Month = None /\ self.Day = None THEN FALSE ELSE IF other.Year = None /\ other.Month = None /\ other.Day = None THEN FALSE ELSE self.Year = other.Year /\ self.Month = other.Month /\ self.Day = other.Day

\* FanzineDate.__lt__: year, then month, then day; at each, self's None
\* returns True before other's None is looked at
FanzineDateLt(self, other) == IF self.Year = None THEN TRUE ELSE IF other.Year = None THEN FALSE ELSE IF self.Year # other.Year THEN Val(self.Year) < Val(other.Year) ELSE IF self.Month = None THEN TRUE ELSE IF other.Month = None THEN FALSE ELSE IF self.Month # other.Month THEN Val(self.Month) < Val(other.Month) ELSE IF self.Day = None THEN TRUE ELSE IF other.Day = None THEN FALSE ELSE IF self.Day # other.Day THEN Val(self.Day) < Val(other.Day) ELSE FALSE

\* format(n, '02d') of n >= 0
Format02d(n) == IF n < 10 THEN "0" \o NatToStr(n) ELSE NatToStr(n)

\* YearName(year) of a stored year
YearName(year) == IF year = None \/ Val(year) = 0 THEN "" ELSE NatToStr(YearPivoted(Val(year)))

\* FormatDateForSorting with the month and the day printed without padding
FanzineDateFormatDateForSortingUnpadded(self) == (IF self.Year # None THEN YearName(self.Year) ELSE "0000") \o "-" \o (IF self.Month # None THEN NatToStr(Val(self.Month)) ELSE "00") \o "_" \o (IF self.Day # None THEN NatToStr(Val(self.Day)) ELSE "00")

\* FanzineDate.FormatDateForSorting: y+"-"+m+"_"+d
FanzineDateFormatDateForSorting(self) == (IF self.Year # None THEN YearName(self.Year) ELSE "0000") \o "-" \o (IF self.Month # None THEN Format02d(Val(self.Month)) ELSE "00") \o "_" \o (IF self.Day # None THEN Format02d(Val(self.Day)) ELSE "00")

\* the dates "which follow no useful pattern": text :> <<Year, Month, DayText, Day>>
RandomDates == ("solar eclipse 2017" :> <<2017, 8, "Solar Eclipse", 21>>) @@ ("2018 new year's day" :> <<2018, 1, "New Years Day", 1>>) @@ ("christmas 2015." :> <<2015, 12, "Christmas", 25>>) @@ ("hogmanay 1991/1992" :> <<1991, 12, "Hogmany", 31>>) @@ ("grey cup day 2014" :> <<2014, 11, "Grey Cup Day", 11>>) @@ ("october 2013 halloween" :> <<2013, 10, "Halloween", 31>>) @@ ("october (halloween) 2015" :> <<2015, 10, "Halloween", 31>>) @@ ("november (december) 2015" :> <<2015, 12, "November (December)", 1>>) @@ ("stampede parade day 2019" :> <<2019, 7, "Stampede Parade Day", 5>>)

\* FanzineDate(Year=..., Month=..., DayText=..., Day=...) of a listed date
RandomDateOf(e, fdt) == IF e = None THEN None ELSE Some(FanzineDateInit(PyInt(Val(e)[1]), PyInt(Val(e)[2]), None, PyInt(Val(e)[4]), Some(Val(e)[3]), None, fdt))

\* InterpretRandomDatestring(text): Some(date) for the listed texts, else None
InterpretRandomDatestring(text, fdt) == RandomDateOf(Lookup(RandomDates, Replace(ToLower(text), ",", "")), fdt)

----------------------------------------------------------------------------
(* Date Matcher: FanzineDate.Match                                         *)

\* [\s\w\-',]
MonthTextChars == SpaceChars \cup WordChars \cup {"-", "'", ","}

\* ^(\d\d\d\d)$
P_Year == Re(<<ReRange(Digits, 4, 4, 1)>>, TRUE)

\* ^(\d{1,2})/(\d{1,2})/(\d{2}|\d{4})$
P_Slash == Re(<<ReRange(Digits, 1, 2, 1), ReOne({"/"}, 0), ReRange(Digits, 1, 2, 2), ReOne({"/"}, 0), ReAlt(Digits, <<2, 4>>, 3)>>, TRUE)

\* ^([\s\w\-',]+).?\s+(\d\d|\d\d\d\d)$
P_MonthYear == Re(<<RePlus(MonthTextChars, 1), ReOpt(AnyChar, 0), RePlus(SpaceChars, 0), ReAlt(Digits, <<2, 4>>, 2)>>, TRUE)

\* ^([\s\w\-',]+).?\s+(\d+),?\s+(\d\d|\d\d\d\d)$
P_MonthDayYear == Re(<<RePlus(MonthTextChars, 1), ReOpt(AnyChar, 0), RePlus(SpaceChars, 0), RePlus(Digits, 2), ReOpt({","}, 0), RePlus(SpaceChars, 0), ReAlt(Digits, <<2, 4>>, 3)>>, TRUE)

\* ^(\d{1,2})\s+([\s\w\-',]+).?\s+(\d\d|\d\d\d\d)$
P_DayMonthYear == Re(<<ReRange(Digits, 1, 2, 1), RePlus(SpaceChars, 0), RePlus(MonthTextChars, 2), ReOpt(AnyChar, 0), RePlus(SpaceChars, 0), ReAlt(Digits, <<2, 4>>, 3)>>, TRUE)

\* ^(.+?)[,\s]+(\d\d|\d\d\d\d)$
P_NamedDayYear == Re(<<ReLazyPlus(AnyChar, 1), RePlus({","} \cup SpaceChars, 0), ReAlt(Digits, <<2, 4>>, 2)>>, TRUE)

\* ^Winter[,\s]+\d\d\d\d\s*-\s*(\d\d)$
P_Winter == Re(ReLit("Winter") \o <<RePlus({","} \cup SpaceChars, 0), ReRange(Digits, 4, 4, 0), ReStar(SpaceChars, 0), ReOne({"-"}, 0), ReStar(SpaceChars, 0), ReRange(Digits, 2, 2, 1)>>, TRUE)

\* ^(\w+)\s*[-/]\s*(\w+)\s,?\s*(\d\d\d\d)$
P_MonthMonth == Re(<<RePlus(WordChars, 1), ReStar(SpaceChars, 0), ReOne({"-", "/"}, 0), ReStar(SpaceChars, 0), RePlus(WordChars, 2), ReOne(SpaceChars, 0), ReOpt({","}, 0), ReStar(SpaceChars, 0), ReRange(Digits, 4, 4, 3)>>, TRUE)

\* ^\d\d\d\d\s*-\s*(\d\d)$
P_YearYear == Re(<<ReRange(Digits, 4, 4, 0), ReStar(SpaceChars, 0), ReOne({"-"}, 0), ReStar(SpaceChars, 0), ReRange(Digits, 2, 2, 1)>>, TRUE)

\* ^(\w+)\s+(\d+),?\s+(\d\d|\d\d\d\d)$
P_Fannish == Re(<<RePlus(WordChars, 1), RePlus(SpaceChars, 0), RePlus(Digits, 2), ReOpt({","}, 0), RePlus(SpaceChars, 0), ReAlt(Digits, <<2, 4>>, 3)>>, TRUE)

\* a step of the cascade: hit when it returned from Match; res what it returned
\* when that is not self; set the values it assigned to self before "return self"
Miss == [hit |-> FALSE, res |-> Ok(EmptyDate), set |-> None]

\* the step returned r, or raised
Hit(r) == [hit |-> TRUE, res |-> r, set |-> None]

\* self.Year=y; self.Month=m; self.Day=d; return self, with self.MonthText=mt
\* when mt is given.  A value the step does not assign is None, as __init__
\* left it
Assigned(y, m, d, mt) == [hit |-> TRUE, res |-> Ok(EmptyDate), set |-> Some(<<y, m, d, mt>>)]

\* self.Year=y; self.Month=m; self.Day=d
DateOf(y, m, d) == FanzineDateSetDay(FanzineDateSetMonth(FanzineDateSetYear(EmptyDate, y), m), d)

\* m.groups()[0].replace(","," ").replace("  ", " ")
CommaToSpace(g) == Replace(Replace(g, ",", " "), "  ", " ")

\* "There are some dates which follow no useful pattern": d is
\* InterpretRandomDatestring(dateText)
MatchRandom(d) == IF d # None THEN Hit(Ok(Val(d))) ELSE Miss

\* "A 4-digit number all alone is a year"
MatchYear(m) == IF m.ok /\ ValidFannishYear(PyStr(m.g[1])).val # "0" THEN Assigned(PyStr(ValidFannishYear(PyStr(m.g[1])).val), PyNone, PyNone, None) ELSE Miss

\* us is ValidateDay(d, m, y) in "the US date format", eu in the "European date
\* format"
MatchSlashDay(g1, g2, y, us, eu) == IF us.exc # "" THEN Hit(Raise(us.exc, EmptyDate)) ELSE IF us.val THEN Assigned(PyInt(y), PyInt(g1), PyInt(g2), None) ELSE IF eu.exc # "" THEN Hit(Raise(eu.exc, EmptyDate)) ELSE IF eu.val THEN Assigned(PyInt(y), PyInt(g2), PyInt(g1), None) ELSE Miss

\* g1, g2, y the ints of the three groups
MatchSlashNums(g1, g2, y, fdt) == MatchSlashDay(g1, g2, y, ValidateDay(g2, g1, Some(y), fdt), ValidateDay(g1, g2, Some(y), fdt))

\* "Look for mm/dd/yy and mm/dd/yyyy"
MatchSlash(m, fdt) == IF ~m.ok THEN Miss ELSE MatchSlashNums(StrToNat(m.g[1]), StrToNat(m.g[2]), StrToNat(ValidFannishYear(PyStr(m.g[3])).val), fdt)

\* md=InterpretMonthDay(mtext); "if md is not None"
MatchMonthYearDay(ytext, md) == IF md.exc # "" THEN Hit(Raise(md.exc, EmptyDate)) ELSE IF md.val = None THEN Miss ELSE Assigned(PyStr(ytext), PyInt(Val(md.val)[1]), PyOpt(Val(md.val)[2]), None)

\* "<month> <yy> or <yyyy>", first part: the text is a month with or without a day
MatchMonthYear(m) == IF ~m.ok \/ InterpretMonth(PyStr(CommaToSpace(m.g[1]))) = None THEN Miss ELSE MatchMonthYearDay(m.g[2], InterpretMonthDay(CommaToSpace(m.g[1])))

\* modifier=" ".join(tokens[:-1]); mtext=tokens[-1:][0]
MatchRelativeWords(y, toks) == IF Len(toks) = 0 \/ MonthNameToInt(toks[Len(toks)]) = None \/ InterpretRelativeWords(Join(SubSeq(toks, 1, Len(toks) - 1), " ")) = None THEN Miss ELSE Assigned(PyStr(y), PyOpt(MonthNameToInt(toks[Len(toks)])), PyTuple(InterpretRelativeWords(Join(SubSeq(toks, 1, Len(toks) - 1), " ")), Some(Join(SubSeq(toks, 1, Len(toks) - 1), " "))), None)

\* second part: "relative terms", the last token the month and the others the modifier
MatchRelative(m) == IF ~m.ok THEN Miss ELSE MatchRelativeWords(ValidFannishYear(PyStr(m.g[2])).val, SplitWS(Replace(Replace(CommaToSpace(m.g[1]), "-", " "), ",", " ")))

\* "Deal with mmm. dd, yyyy"
MatchMonthDayYear(m) == IF ~m.ok \/ InterpretMonth(PyStr(CommaToSpace(m.g[1]))) = None THEN Miss ELSE Assigned(PyStr(m.g[3]), PyOpt(InterpretMonth(PyStr(CommaToSpace(m.g[1])))), PyInt(StrToNat(m.g[2])), None)

\* "Look for <dd> <month> [,] <yyyy>"
MatchDayMonthYear(m) == IF ~m.ok \/ InterpretMonth(PyStr(CommaToSpace(m.g[2]))) = None THEN Miss ELSE Assigned(PyStr(m.g[3]), PyOpt(InterpretMonth(PyStr(CommaToSpace(m.g[2])))), PyInt(StrToNat(m.g[1])), None)

\* rslt=InterpretNamedDay(mtext); "if rslt is not None"
MatchNamedDay(y, rslt) == IF rslt = None THEN Miss ELSE Assigned(PyStr(y), PyOpt(Val(rslt)[1]), PyOpt(Val(rslt)[2]), None)

\* "<strange day/month> <year>"; the text is stored in an attribute MonDayText
\* that no other code reads, _MonthDayText stays None
MatchNamedDayYear(m, fdt) == IF ~m.ok THEN Miss ELSE MatchNamedDay(ValidFannishYear(PyStr(m.g[2])).val, InterpretNamedDay(CommaToSpace(m.g[1]), fdt))

\* "Winter 1951-52": cls(Year=int(m.groups()[0]), Month=1, MonthText="Winter")
MatchWinter(m, fdt) == IF ~m.ok THEN Miss ELSE Hit(Ok(FanzineDateInit(PyInt(StrToNat(m.g[1])), PyInt(1), Some("Winter"), PyNone, None, None, fdt)))

\* "Month-Month year ... will be taken to mean the first month"
MatchMonthMonth(m) == IF ~m.ok \/ InterpretMonth(PyStr(m.g[1])) = None THEN Miss ELSE Assigned(PyInt(StrToNat(m.g[3])), PyOpt(InterpretMonth(PyStr(m.g[1]))), PyNone, Some(m.g[1] \o "-" \o m.g[2]))

\* "yyyy-yy all alone"
MatchYearYear(m) == IF ~m.ok THEN Miss ELSE Assigned(PyInt(StrToNat(m.g[1])), PyInt(1), PyNone, None)

\* bd, bm, by=BoundDay(d, m, y); self.Year=by; self.Month=bm; self.Day=bd
MatchFannishBound(b) == IF b.exc # "" THEN Hit(Raise(b.exc, EmptyDate)) ELSE Assigned(PyOpt(b.val[3]), PyOpt(b.val[2]), PyOpt(b.val[1]), None)

\* "if y is not None and m is not None and d is not None"
MatchFannishParts(y, mo, d) == IF mo = None \/ d = None THEN Miss ELSE MatchFannishBound(BoundDay(d, mo, Some(y)))

\* "the fannish April 31, 1967": the day is bounded by BoundDay
MatchFannish(m, fdt) == IF ~m.ok THEN Miss ELSE MatchFannishParts(StrToNat(ValidFannishYear(PyStr(m.g[3])).val), InterpretMonth(PyStr(m.g[1])), InterpretDay(PyStr(m.g[2]), fdt))

\* the first step that returned
FirstHit(steps) == IF \E i \in 1..Len(steps) : steps[i].hit THEN steps[CHOOSE i \in 1..Len(steps) : steps[i].hit /\ \A j \in 1..(i - 1) : ~steps[j].hit] ELSE Miss

\* the steps of Match in the order of the code, each with its re.match; the
\* first that returns wins
MatchSteps(t, fdt) == <<MatchRandom(InterpretRandomDatestring(t, fdt)), MatchYear(ReGroups(P_Year, t)), MatchSlash(ReGroups(P_Slash, t), fdt), MatchMonthYear(ReGroups(P_MonthYear, t)), MatchRelative(ReGroups(P_MonthYear, t)), MatchMonthDayYear(ReGroups(P_MonthDayYear, t)), MatchDayMonthYear(ReGroups(P_DayMonthYear, t)), MatchNamedDayYear(ReGroups(P_NamedDayYear, t), fdt), MatchWinter(ReGroups(P_Winter, t), fdt), MatchMonthMonth(ReGroups(P_MonthMonth, t)), MatchYearYear(ReGroups(P_YearYear, t)), MatchFannish(ReGroups(P_Fannish, t), fdt)>>

\* s.strip() with long dashes and double hyphens turned into hyphens (the
\* texts of the model hold no long dash)
DateText(s) == Replace(Strip(s), "--", "-")

\* "return self" of the step c: self with the values the step assigned
MatchReturn(c) == IF c.hit /\ c.set # None THEN Hit(Ok([DateOf(Val(c.set)[1], Val(c.set)[2], Val(c.set)[3]) EXCEPT !.MonthText = IF Val(c.set)[4] = None THEN @ ELSE Val(c.set)[4]])) ELSE c

\* Match(s, strict, complete) up to the call of dateutil's parser: hit when
\* Match returned (or raised) before it
FanzineDateCascade(s, fdt) == IF Len(DateText(s)) = 0 THEN Hit(Ok(EmptyDate)) ELSE MatchReturn(FirstHit(MatchSteps(DateText(s), fdt)))

\* Match(s, strict, complete) when strict or complete is set: dateutil's parser
\* is not tried and "Nothing worked" returns the empty date
FanzineDateMatch(s, fdt) == FanzineDateCascade(s, fdt).res

----------------------------------------------------------------------------
(* FanzineSerial                                                           *)

RECURSIVE Gcd(_, _)
\* the greatest common divisor, for numbers kept in lowest terms
Gcd(a, b) == IF b = 0 THEN a ELSE Gcd(b, a % b)

\* an int
IntNum(n) == [n |-> n, d |-> 1, flt |-> FALSE]

\* the float n/d, d > 0, in lowest terms
FloatNum(n, d) == LET g == Gcd(n, d) IN IF g = 0 THEN [n |-> 0, d |-> 1, flt |-> TRUE] ELSE [n |-> n \div g, d |-> d \div g, flt |-> TRUE]

\* a / b of two ints: a float, ZeroDivisionError when b is 0
TrueDiv(a, b) == IF b = 0 THEN Raise("ZeroDivisionError", IntNum(0)) ELSE Ok(FloatNum(a, b))

\* a + x of an int and a float
AddIntFloat(a, x) == FloatNum(a * x.d + x.n, x.d)

RECURSIVE Pow10(_)
Pow10(k) == IF k = 0 THEN 1 ELSE 10 * Pow10(k - 1)

\* the float whole.frac
FloatOfParts(whole, frac) == FloatNum(StrToNat(whole) * Pow10(Len(frac)) + StrToNat(frac), Pow10(Len(frac)))

\* float(text) of a text of the form digits.digits
FloatOfText(text) == FloatOfParts(SubSeq(text, 1, IndexIn(text, ".") - 1), SubSeq(text, IndexIn(text, ".") + 1, Len(text)))

\* the value of a Roman digit
RomanValue(c) == IF c = "I" THEN 1 ELSE IF c = "V" THEN 5 ELSE IF c = "X" THEN 10 ELSE IF c = "L" THEN 50 ELSE 100

RECURSIVE InterpretRomanFrom(_, _)
InterpretRomanFrom(s, i) == IF i > Len(s) THEN 0 ELSE (IF i < Len(s) /\ RomanValue(Ch(s, i + 1)) > RomanValue(Ch(s, i)) THEN 0 - RomanValue(Ch(s, i)) ELSE RomanValue(Ch(s, i))) + InterpretRomanFrom(s, i + 1)

\* InterpretRoman(s) of a text of the letters I, V, X, L, C: a digit before a
\* larger one is subtracted
InterpretRoman(s) == InterpretRomanFrom(s, 1)

\* FanzineSerial(): _Vol, _Num, _NumSuffix, _Whole, _WSuffix
EmptySerial == [Vol |-> None, Num |-> None, NumSuffix |-> "", Whole |-> None, WSuffix |-> ""]

\* SetIntProperty(val) of None or a number: the value itself
SetIntProperty(val) == val

\* the NumSuffix and WSuffix setters: None is stored as ""
SetSuffix(val) == IF val = None THEN "" ELSE Val(val)

\* __init__(Vol, Num, NumSuffix, Whole, WSuffix): the numbers Optional numbers,
\* the suffixes Optional strs
FanzineSerialInit(Vol, Num, NumSuffix, Whole, WSuffix) == [Vol |-> SetIntProperty(Vol), Num |-> SetIntProperty(Num), NumSuffix |-> SetSuffix(NumSuffix), Whole |-> SetIntProperty(Whole), WSuffix |-> SetSuffix(WSuffix)]

\* IsEmpty()
FanzineSerialIsEmpty(self) == ~(\/ Len(self.NumSuffix) > 0 \/ self.Num # None \/ self.Whole # None \/ self.Vol # None \/ Len(self.WSuffix) > 0)

\* the characters of the texts in the order of their code points
AsciiStr == " !#$%&'()*+,-./0123456789:;<=>?@ABCDEFGHIJKLMNOPQRSTUVWXYZ[]^_abcdefghijklmnopqrstuvwxyz{|}~"

RECURSIVE StrLess(_, _)
\* a < b of two str: by code point at the first difference, a prefix is smaller
StrLess(a, b) == IF b = "" THEN FALSE ELSE IF a = "" THEN TRUE ELSE IF Ch(a, 1) = Ch(b, 1) THEN StrLess(Tail(a), Tail(b)) ELSE IndexIn(AsciiStr, Ch(a, 1)) < IndexIn(AsciiStr, Ch(b, 1))

\* x < y of two numbers
NumLess(x, y) == x.n * y.d < y.n * x.d

\* x == y of two numbers or None
NumEq(x, y) == IF x = None \/ y = None THEN x = y ELSE Val(x).n = Val(y).n /\ Val(x).d = Val(y).d

\* CaseInsensitiveCompare of two suffixes
CaseInsensitiveCompare(a, b) == ToLower(a) = ToLower(b)

\* __NumEq__, __VolEq__ and __VNEq__
FanzineSerialVNEq(self, other) == NumEq(self.Vol, other.Vol) /\ NumEq(self.Num, other.Num) /\ CaseInsensitiveCompare(self.NumSuffix, other.NumSuffix)

\* __WEq__
FanzineSerialWEq(self, other) == NumEq(self.Whole, other.Whole) /\ CaseInsensitiveCompare(self.WSuffix, other.WSuffix)

\* __eq__ with the Vol/Num match accepted whatever the wholes
FanzineSerialEqVolNum(self, other) == \/ (self.Whole # None /\ FanzineSerialWEq(self, other)) \/ (FanzineSerialWEq(self, other) /\ FanzineSerialVNEq(self, other)) \/ FanzineSerialVNEq(self, other)

\* FanzineSerial.__eq__: the wholes match; or the wholes and the Vol/Num match;
\* or "at least one of the Wholes is None and the Vol/Num match"
FanzineSerialEq(self, other) == \/ (self.Whole # None /\ FanzineSerialWEq(self, other)) \/ (FanzineSerialWEq(self, other) /\ FanzineSerialVNEq(self, other)) \/ ((self.Whole = None \/ other.Whole = None) /\ FanzineSerialVNEq(self, other))

\* __lt__ when both have Wholes: the Wholes, then the suffixes (a suffix
\* is never None: the setters store "")
FanzineSerialLtWhole(self, other) == IF NumLess(Val(self.Whole), Val(other.Whole)) THEN TRUE ELSE IF NumLess(Val(other.Whole), Val(self.Whole)) THEN FALSE ELSE StrLess(self.WSuffix, other.WSuffix)

\* __lt__ when "Wholes were no help": the Vols, then a Num that is None; two
\* Nums that are not None end at "Who knows? return False"
FanzineSerialLtVol(self, other) == IF self.Vol = None \/ other.Vol = None THEN FALSE ELSE IF NumLess(Val(self.Vol), Val(other.Vol)) THEN TRUE ELSE IF NumLess(Val(other.Vol), Val(self.Vol)) THEN FALSE ELSE self.Num = None /\ other.Num # None

\* FanzineSerial.__lt__
FanzineSerialLt(self, other) == IF self.Whole # None /\ other.Whole # None THEN FanzineSerialLtWhole(self, other) ELSE FanzineSerialLtVol(self, other)

RECURSIVE FracDigits(_, _)
\* the decimal digits of r/d, 0 <= r < d, for a d that divides a power of ten
FracDigits(r, d) == IF r = 0 THEN "" ELSE NatToStr((r * 10) \div d) \o FracDigits((r * 10) % d, d)

\* str(x) of a float x >= 0 with a finite decimal expansion: 7.5, 3.25, 8.0
FloatStr(x) == NatToStr(x.n \div x.d) \o "." \o (IF x.n % x.d = 0 THEN "0" ELSE FracDigits(x.n % x.d, x.d))

\* str(x) of an int or a float
NumStr(x) == IF x.flt THEN FloatStr(x) ELSE IntToStr(x.n)

\* FanzineSerial.__str__: the suffixes are never None
FanzineSerialStr(self) == IF self.Vol # None /\ self.Num # None /\ self.Whole # None THEN Strip(Strip("V" \o NumStr(Val(self.Vol)) \o "#" \o NumStr(Val(self.Num)) \o self.NumSuffix \o " (#" \o NumStr(Val(self.Whole)) \o self.WSuffix \o ")")) ELSE IF self.Vol # None /\ self.Num # None THEN Strip(Strip("V" \o NumStr(Val(self.Vol)) \o "#" \o NumStr(Val(self.Num)) \o self.NumSuffix)) ELSE IF self.Whole # None THEN Strip(Strip("#" \o NumStr(Val(self.Whole)) \o self.WSuffix)) ELSE ""

----------------------------------------------------------------------------
(* Serial Matcher: FanzineSerial.Match                                     *)

RomanChars == {"I", "V", "X", "L", "C"}

\* ^V(\d+)\s*#(\d+)(\w?)
P_VNum == Re(<<ReOne({"V"}, 0), RePlus(Digits, 1), ReStar(SpaceChars, 0), ReOne({"#"}, 0), RePlus(Digits, 2), ReOpt(WordChars, 3)>>, FALSE)

\* V[oO][lL]\s*(\d+)\s*#(\d+)(\w?)$
P_VolNum == Re(<<ReOne({"V"}, 0), ReOne({"o", "O"}, 0), ReOne({"l", "L"}, 0), ReStar(SpaceChars, 0), RePlus(Digits, 1), ReStar(SpaceChars, 0), ReOne({"#"}, 0), RePlus(Digits, 2), ReOpt(WordChars, 3)>>, TRUE)

\* ^(\d+)\s+(\d+)/(\d+)$
P_WholeFraction == Re(<<RePlus(Digits, 1), RePlus(SpaceChars, 0), RePlus(Digits, 2), ReOne({"/"}, 0), RePlus(Digits, 3)>>, TRUE)

\* ^(\d+)/(\d+)$
P_VolSlashNum == Re(<<RePlus(Digits, 1), ReOne({"/"}, 0), RePlus(Digits, 2)>>, TRUE)

\* ^([IVXLC]+)/(\d+)$
P_RomanSlashNum == Re(<<RePlus(RomanChars, 1), ReOne({"/"}, 0), RePlus(Digits, 2)>>, TRUE)

\* ^(\d+)-(\d+)$
P_WholeRange == Re(<<RePlus(Digits, 1), ReOne({"-"}, 0), RePlus(Digits, 2)>>, TRUE)

\* ^#(\d+)$
P_HashWhole == Re(<<ReOne({"#"}, 0), RePlus(Digits, 1)>>, TRUE)

\* ^.*?(\d+\.\d+)$
P_Decimal == Re(<<ReLazyStar(AnyChar, 0), RePlus(Digits, 1), ReOne({"."}, 1), RePlus(Digits, 1)>>, TRUE)

\* ^.*?([0-9]+)([a-zA-Z]?)\s*$
P_TrailingWhole == Re(<<ReLazyStar(AnyChar, 0), RePlus(Digits, 1), ReOpt(Letters, 2), ReStar(SpaceChars, 0)>>, TRUE)

\* ^.*?\s+([IVXLC]+)\s*$
P_TrailingRoman == Re(<<ReLazyStar(AnyChar, 0), RePlus(SpaceChars, 0), RePlus(RomanChars, 1), ReStar(SpaceChars, 0)>>, TRUE)

\* int(text) of a group of digits, as an Optional number
GroupInt(text) == Some(IntNum(StrToNat(text)))

\* "First look for a Vol+Num designation: Vnnn #mmm"
SerialVNum(m) == IF ~m.ok THEN Miss ELSE Hit(Ok(FanzineSerialInit(GroupInt(m.g[1]), GroupInt(m.g[2]), Some(m.g[3]), None, Some(""))))

\* "Vol (or VOL) + optional space + nnn ... + #nnn + optional ... suffix"
SerialVolNum(m) == IF ~m.ok THEN Miss ELSE Hit(Ok(FanzineSerialInit(GroupInt(m.g[1]), GroupInt(m.g[2]), Some(m.g[3]), None, Some(""))))

\* Whole=int(m.groups()[0])+int(m.groups()[1])/int(m.groups()[2]), q the quotient
SerialWholePlus(n, q) == IF q.exc # "" THEN Hit(Raise(q.exc, EmptySerial)) ELSE Hit(Ok(FanzineSerialInit(None, None, Some(""), Some(AddIntFloat(n, q.val)), Some(""))))

\* "Now look for nnn nnn/nnn (fractions!)"
SerialWholeFraction(m) == IF ~m.ok THEN Miss ELSE SerialWholePlus(StrToNat(m.g[1]), TrueDiv(StrToNat(m.g[2]), StrToNat(m.g[3])))

\* "Now look for nnn/nnn (which is understood as vol/num"
SerialVolSlashNum(m) == IF ~m.ok THEN Miss ELSE Hit(Ok(FanzineSerialInit(GroupInt(m.g[1]), GroupInt(m.g[2]), Some(""), None, Some(""))))

\* "Now look for xxx/nnn, where xxx is in Roman numerals"
SerialRomanSlashNum(m) == IF ~m.ok THEN Miss ELSE Hit(Ok(FanzineSerialInit(Some(IntNum(InterpretRoman(m.g[1]))), GroupInt(m.g[2]), Some(""), None, Some(""))))

\* "Next look for nnn-nnn (... only the start is returned)"
SerialWholeRange(m) == IF ~m.ok THEN Miss ELSE Hit(Ok(FanzineSerialInit(None, None, Some(""), GroupInt(m.g[1]), Some(""))))

\* "Next look for #nnn"
SerialHashWhole(m) == IF ~m.ok THEN Miss ELSE Hit(Ok(FanzineSerialInit(None, None, Some(""), GroupInt(m.g[1]), Some(""))))

\* "Now look for a trailing decimal number"
SerialDecimal(m) == IF ~m.ok THEN Miss ELSE Hit(Ok(FanzineSerialInit(None, Some(FloatOfText(m.g[1])), Some(""), None, Some(""))))

\* "Now look for a single trailing number"
SerialTrailingWhole(m) == IF ~m.ok THEN Miss ELSE Hit(Ok(FanzineSerialInit(None, None, Some(""), GroupInt(m.g[1]), Some(Strip(m.g[2])))))

\* "Now look for trailing Roman numerals"
SerialTrailingRoman(m) == IF ~m.ok THEN Miss ELSE Hit(Ok(FanzineSerialInit(None, Some(IntNum(InterpretRoman(m.g[1]))), Some(""), None, Some(""))))

\* the steps of Match in the order of the code, each with its re.match; the
\* last two only "if not strict and not complete"
SerialSteps(t, strict, complete) == <<SerialVNum(ReGroups(P_VNum, t)), SerialVolNum(ReGroups(P_VolNum, t)), SerialWholeFraction(ReGroups(P_WholeFraction, t)), SerialVolSlashNum(ReGroups(P_VolSlashNum, t)), SerialRomanSlashNum(ReGroups(P_RomanSlashNum, t)), SerialWholeRange(ReGroups(P_WholeRange, t)), SerialHashWhole(ReGroups(P_HashWhole, t)), SerialDecimal(ReGroups(P_Decimal, t))>> \o (IF ~strict /\ ~complete THEN <<SerialTrailingWhole(ReGroups(P_TrailingWhole, t)), SerialTrailingRoman(ReGroups(P_TrailingRoman, t))>> ELSE <<>>)

\* Match(s, strict, complete): the first step that returns wins, "No good,
\* return failure" gives the empty serial
FanzineSerialMatch(s, strict, complete) == LET On(c) == IF c.hit THEN c.res ELSE Ok(EmptySerial) IN On(FirstHit(SerialSteps(Strip(s), strict, complete)))

----------------------------------------------------------------------------
(* FanzineIssueSpec: the IssueSpec Combinator                              *)

\* FanzineIssueSpec(FS, FD): a part not given is constructed from no arguments,
\* FanzineSerial() and FanzineDate(), which are the empty serial and date
FanzineIssueSpecInit(FS, FD) == [FS |-> IF FS # None THEN Val(FS) ELSE EmptySerial, FD |-> IF FD # None THEN Val(FD) ELSE EmptyDate]

\* FanzineIssueSpec.FormatDateForSorting
FanzineIssueSpecFormatDateForSorting(self) == FanzineDateFormatDateForSorting(self.FD)

\* FanzineIssueSpec.__lt__: _FD is never None after __init__, so the dates decide
FanzineIssueSpecLt(self, other) == FanzineDateLt(self.FD, other.FD)

\* obj.name=val for a name that is no property of obj: a new attribute
AddAttribute(obj, name, val) == [f \in DOMAIN obj \cup {name} |-> IF f = name THEN val ELSE obj[f]]

\* ToNumeric(val) of None, an int or a str of an integer
ToNumericValue(val) == IF val.t = "int" THEN Some(IntNum(val.i)) ELSE IF val.t = "str" /\ IsIntText(val.s) THEN Some(IntNum(IntOfText(val.s))) ELSE None

\* the value the Vol, Num and Whole setters pass on: None for "", else ToNumeric(val)
IssueSpecNumber(val) == IF val.t = "str" /\ Len(val.s) = 0 THEN None ELSE ToNumericValue(val)

\* the Year setter of FanzineIssueSpec: self._FS.Year=val
FanzineIssueSpecSetYear(self, val) == [self EXCEPT !.FS = AddAttribute(self.FS, "Year", val)]

\* the Vol setter of FanzineIssueSpec
FanzineIssueSpecSetVol(self, val) == [self EXCEPT !.FS.Vol = SetIntProperty(IssueSpecNumber(val))]

\* the Num setter of FanzineIssueSpec
FanzineIssueSpecSetNum(self, val) == [self EXCEPT !.FS.Num = SetIntProperty(IssueSpecNumber(val))]

\* the Whole setter of FanzineIssueSpec
FanzineIssueSpecSetWhole(self, val) == [self EXCEPT !.FS.Whole = SetIntProperty(IssueSpecNumber(val))]

\* FanzineIssueSpec(Whole=i) of an int i: FanzineSerial(Whole=i), FanzineDate()
FanzineIssueSpecWhole(i) == [FS |-> FanzineSerialInit(None, None, None, Some(IntNum(i)), None), FD |-> EmptyDate]

\* IsEmpty()
FanzineIssueSpecIsEmpty(self) == FanzineDateIsEmpty(self.FD) /\ FanzineSerialIsEmpty(self.FS)

\* ^(\d+)$
P_AllDigits == Re(<<RePlus(Digits, 1)>>, TRUE)

\* the serial part of Match: first is FanzineSerial().Match(s, strict=strict,
\* complete=True), second FanzineSerial().Match(s, complete=complete), tried
\* when the first is empty; "No good.  Failed" returns cls()
FanzineIssueSpecSerial(first, second) == IF first.exc # "" THEN Raise(first.exc, FanzineIssueSpecInit(None, None)) ELSE IF ~FanzineSerialIsEmpty(first.val) THEN Ok(FanzineIssueSpecInit(Some(first.val), None)) ELSE IF second.exc # "" THEN Raise(second.exc, FanzineIssueSpecInit(None, None)) ELSE IF ~FanzineSerialIsEmpty(second.val) THEN Ok(FanzineIssueSpecInit(Some(second.val), None)) ELSE Ok(FanzineIssueSpecInit(None, None))

\* fd=FanzineDate().Match(s, strict=True, complete=True): cls(FD=fd) when it is
\* not empty, else fs, the outcome of the serial part
FanzineIssueSpecDate(fd, fs) == IF fd.exc # "" THEN Raise(fd.exc, FanzineIssueSpecInit(None, None)) ELSE IF ~FanzineDateIsEmpty(fd.val) THEN Ok(FanzineIssueSpecInit(None, Some(fd.val))) ELSE fs

\* Match without the first step: the date is tried on every text
FanzineIssueSpecMatchDateFirst(s, strict, complete) == FanzineIssueSpecDate(FanzineDateMatch(s, FALSE), FanzineIssueSpecSerial(FanzineSerialMatch(s, strict, TRUE), FanzineSerialMatch(s, FALSE, complete)))

\* Match(s, strict, complete): a number standing by itself is a whole number
\* (the Whole setter turns the digits into their int), then the date
\* "interpret[ed] strictly no matter what the parameter says", then the serial
FanzineIssueSpecMatch(s, strict, complete) == IF ReMatch(P_AllDigits, s).ok THEN Ok(FanzineIssueSpecInit(Some(FanzineSerialInit(None, None, Some(""), Some(IntNum(StrToNat(s))), Some(""))), None)) ELSE FanzineIssueSpecDate(FanzineDateMatch(s, FALSE), FanzineIssueSpecSerial(FanzineSerialMatch(s, strict, TRUE), FanzineSerialMatch(s, FALSE, complete)))

----------------------------------------------------------------------------
(* FanzineIssueSpecList.Match: the list parser                             *)

\* tokens=[t.strip() for t in s.split(",")]
SplitTokens(s) == LET parts == SplitOn(s, ",") IN [i \in 1..Len(parts) |-> Strip(parts[i])]

\* ^\d{4}$
P_FourDigits == Re(<<ReRange(Digits, 4, 4, 0)>>, TRUE)

\* tokens[0][0] of an empty token 0 when a further token follows
JoinRaises(toks) == Len(toks) > 1 /\ toks[1] = ""

\* "Token 0 must contain a month name as its first token and may not start
\* with a digit", "Token 1 must be a 4-digit year"
JoinApplies(toks) == /\ Len(toks) > 1 /\ toks[1] # "" /\ Ch(toks[1], 1) \notin Digits /\ MonthNameToInt(SplitWS(toks[1])[1]) # None /\ ReMatch(P_FourDigits, toks[2]).ok

\* trial=tokens[0]+", "+tokens[1]
JoinTrial(toks) == toks[1] \o ", " \o toks[2]

\* the range token is refused: not two subtokens, or not both ints, or the
\* first not below the second
BadRange(tok) == LET Bad(subtokens) == \/ Len(subtokens) # 2 \/ ~IsIntText(subtokens[1]) \/ ~IsIntText(subtokens[2]) \/ IntOfText(subtokens[1]) >= IntOfText(subtokens[2]) IN Bad(SplitOn(tok, "-"))

\* the half-open range: for i in range(a, b)
RangeSpecsOpen(a, b) == [i \in 1..(b - a) |-> FanzineIssueSpecWhole(a + i - 1)]

\* for i in range(a, b+1): fislist.append(FanzineIssueSpec(Whole=i))
RangeSpecs(a, b) == [i \in 1..(b - a + 1) |-> FanzineIssueSpecWhole(a + i - 1)]

Outcome(kind, exc, add) == [kind |-> kind, exc |-> exc, add |-> add]

\* the single token, fis being FanzineIssueSpec().Match(tokens[0], strict,
\* complete): appended when not empty, else logged and ignored
SingleOutcome(fis) == IF fis.exc # "" THEN Outcome("raise", fis.exc, <<>>) ELSE IF ~FanzineIssueSpecIsEmpty(fis.val) THEN Outcome("single", "", <<fis.val>>) ELSE Outcome("ignore", "", <<>>)

\* the range token, or else the single token
TokenOutcome(tok, fis) == LET Range(subtokens) == Outcome("range", "", RangeSpecs(IntOfText(subtokens[1]), IntOfText(subtokens[2]))) IN IF Contains(tok, "-") THEN (IF BadRange(tok) THEN Outcome("abort", "", <<>>) ELSE Range(SplitOn(tok, "-"))) ELSE SingleOutcome(fis)

\* FanzineIssueSpec().Match(s, strict, complete) of each call
IssueSpecMatches(calls) == [i \in 1..Len(calls) |-> FanzineIssueSpecMatch(calls[i].s, calls[i].strict, calls[i].complete)]

\* join: the leading tokens are rejoined; fis[1] the match of the trial
\* (strict=True, complete=True), fis[2] the match of token 0
JoinOutcome(tok, join, fis) == IF join /\ fis[1].exc # "" THEN Outcome("raise", fis[1].exc, <<>>) ELSE IF join /\ ~FanzineIssueSpecIsEmpty(fis[1].val) THEN Outcome("joined", "", <<fis[1].val>>) ELSE TokenOutcome(tok, fis[2])

\* one pass of the loop "while len(tokens) > 0": the branch taken, the
\* exception it raises, the IssueSpecs it appends
LoopOutcome(toks, strict, complete) == IF JoinRaises(toks) THEN Outcome("raise", "IndexError", <<>>) ELSE JoinOutcome(toks[1], JoinApplies(toks), IssueSpecMatches(<<[s |-> IF JoinApplies(toks) THEN JoinTrial(toks) ELSE toks[1], strict |-> TRUE, complete |-> TRUE], [s |-> toks[1], strict |-> strict, complete |-> complete]>>))

----------------------------------------------------------------------------
(* Calls of the pure functions: the state before a call holds the function *)
(* and its argument, the state after it the value returned or the          *)
(* exception raised                                                        *)

NoRet == Ok(<<>>)

Start(o, args) == /\ pc = "start" /\ op = o /\ arg \in args /\ ret = NoRet /\ tokens = <<>> /\ fislist = <<>>

Return(r) == /\ pc' = "done" /\ ret' = r /\ UNCHANGED <<op, arg, tokens, fislist>>

\* the largest number given to the Year Normalizer
MaxYearArg == 2150

YearTexts == {"", "abc", "19x7", "00", "05", "32", "33", "52", "99", " 67 "}

YearArgs == {PyNone} \cup {PyInt(n) : n \in (0 - 3)..MaxYearArg} \cup {PyStr(IntToStr(n)) : n \in 0..MaxYearArg} \cup {PyStr(t) : t \in YearTexts}

InitYear == Start("YearAs4Digits", YearArgs) \/ Start("ValidFannishYear", YearArgs)

CallYearAs4Digits == /\ pc = "start" /\ op = "YearAs4Digits" /\ Return(Ok(YearAs4Digits(arg)))

CallValidFannishYear == /\ pc = "start" /\ op = "ValidFannishYear" /\ Return(ValidFannishYear(arg))

NextYear == CallYearAs4Digits \/ CallValidFannishYear

SpecYear == InitYear /\ [][NextYear]_vars

\* how far outside the accepted range -10..60 the days given to BoundDay go
DayMargin == 2

\* the number of years, from 1999 on, given to BoundDay
NBoundYears == 2

BoundDayArgs == [d : {None} \cup {Some(n) : n \in (DayTypoLow - DayMargin)..(DayTypoHigh + DayMargin)}, m : {None} \cup {Some(n) : n \in 0..13}, y : {None} \cup {Some(1998 + n) : n \in 1..NBoundYears}]

InitBound == Start("BoundDay", BoundDayArgs)

CallBoundDay == /\ pc = "start" /\ op = "BoundDay" /\ Return(BoundDay(arg.d, arg.m, arg.y))

NextBound == CallBoundDay

SpecBound == InitBound /\ [][NextBound]_vars

\* what dateutil's parser.parse makes of a text: nothing (it raised, or gave
\* the default date back), or a year, month and day
ParserOutcomes == {None, Some(<<1999, 12, 25>>), Some(<<5, 3, 1>>)}

\* d=parser.parse(dateText, default=datetime(1, 1, 1)) inside
\* suppress(Exception): the date of d, the empty date when parse raised or
\* returned the default
FanzineDateParsed(parsed) == IF parsed = None THEN Ok(EmptyDate) ELSE Ok(DateOf(PyInt(Val(parsed)[1]), PyInt(Val(parsed)[2]), PyInt(Val(parsed)[3])))

\* what Match(s, strict, complete) returns or raises, c being the cascade: "It
\* is pretty aggressive, so only use it when strict is not set"; "Nothing
\* worked" returns the empty date
FanzineDateOutcomes(c, strict, complete) == IF c.hit THEN {c.res} ELSE IF ~strict /\ ~complete THEN {FanzineDateParsed(parsed) : parsed \in ParserOutcomes} ELSE {Ok(EmptyDate)}

\* a text given to a matcher, with the form it was written in and the numbers
\* it was written from
TextArg(s, form, a, b, c, strict, complete) == [s |-> s, form |-> form, a |-> a, b |-> b, c |-> c, strict |-> strict, complete |-> complete]

MonthNames == <<"January", "February", "March", "April", "May", "June", "July", "August", "September", "October", "November", "December">>

\* the last two digits of n, as text
TwoDigits(n) == NatToStr((n % 100) \div 10) \o NatToStr(n % 10)

\* the largest day number written in '<month> <day>, <year>'
MaxDayArg == 61

\* the largest number written in 'a/b/y'
MaxSlashArg == 14

DateTexts == {"", "  ", "2007", "1066", "abc", "Dec 1967", "Dec. 67", "late September 1999", "15 March 1999", "Halloween, 1999", "Solar Eclipse 2017", "June - July 2001", "12/25/1999", "25/12/99", "2/29/2000", "13/45/1999", "V3#2", "9-12", "1999--00"}

DateArgs == {TextArg(MonthNames[m] \o " " \o NatToStr(d) \o ", 1967", "month day, year", m, d, 1967, FALSE, TRUE) : m \in 1..12, d \in 1..MaxDayArg} \cup {TextArg("Winter " \o NatToStr(y) \o "-" \o TwoDigits(y + 1), "Winter yyyy-yy", y, 0, 0, FALSE, TRUE) : y \in (FannishYearLow + 1)..(FannishYearHigh - 1)} \cup {TextArg(NatToStr(y) \o "-" \o TwoDigits(y + 1), "yyyy-yy", y, 0, 0, FALSE, TRUE) : y \in (FannishYearLow + 1)..(FannishYearHigh - 1)} \cup {TextArg(NatToStr(a) \o "/" \o NatToStr(b) \o "/99", "a/b/y", a, b, 99, FALSE, TRUE) : a \in 0..MaxSlashArg, b \in 0..MaxSlashArg \cup {28, 29, 30, 31, 32, 45}} \cup {TextArg(t, "text", 0, 0, 0, st, co) : t \in DateTexts, st \in BOOLEAN, co \in BOOLEAN}

InitDate == Start("FanzineIssueSpecPackage.FanzineDate.Match", DateArgs) \/ Start("FanzineDateTime.FanzineDate.Match", DateArgs)

\* FanzineDate.Match of FanzineIssueSpecPackage.py
CallDateMatchISP == /\ pc = "start" /\ op = "FanzineIssueSpecPackage.FanzineDate.Match" /\ \E r \in FanzineDateOutcomes(FanzineDateCascade(arg.s, FALSE), arg.strict, arg.complete) : Return(r)

\* FanzineDate.Match of FanzineDateTime.py
CallDateMatchFDT == /\ pc = "start" /\ op = "FanzineDateTime.FanzineDate.Match" /\ \E r \in FanzineDateOutcomes(FanzineDateCascade(arg.s, TRUE), arg.strict, arg.complete) : Return(r)

NextDate == CallDateMatchISP \/ CallDateMatchFDT

SpecDate == InitDate /\ [][NextDate]_vars

\* the largest distance from the first to the second month of a pair
MaxMonthGap == 2

\* the separators of a month pair, with and without spaces
PairSeparators == {"-", "/", " - ", " / "}

\* the month names of the pairs
PairMonths == <<"Jan", "Feb", "Mar", "Apr", "May", "June", "July", "Aug", "Sept", "Oct", "Nov", "Dec">>

\* '<month1>-<month2> <yyyy>' and '<month1>/<month2> <yyyy>'
DatePairArgs == {TextArg(PairMonths[m] \o sep \o PairMonths[((m + g - 1) % 12) + 1] \o " " \o NatToStr(y), "month1-month2 yyyy", m, ((m + g - 1) % 12) + 1, y, sc, sc) : m \in 1..12, g \in 1..MaxMonthGap, sep \in PairSeparators, y \in {1967, 2001}, sc \in BOOLEAN}

InitDatePair == Start("FanzineIssueSpecPackage.FanzineDate.Match", DatePairArgs) \/ Start("FanzineDateTime.FanzineDate.Match", DatePairArgs)

SpecDatePair == InitDatePair /\ [][NextDate]_vars

\* the years of the 'a/b/y' texts as written and as expanded: two digits, four
\* digits, and four digits outside the fannish range
SlashYears == {<<"99", 1999>>, <<"1967", 1967>>, <<"1066", 1066>>}

\* 'a/b/y' with a and b of one or two digits, and '<month> y'
DateSlashArgs == {TextArg(PairMonths[m] \o " " \o y[1], "month yyyy", m, 0, y[2], sc, sc) : m \in {6, 12}, y \in SlashYears, sc \in {TRUE}} \cup {TextArg(NatToStr(a) \o "/" \o NatToStr(b) \o "/" \o y[1], "a/b/yyyy", a, b, y[2], sc, sc) : a \in 0..MaxSlashArg, b \in 0..MaxSlashArg \cup {30, 31, 32}, y \in SlashYears, sc \in {TRUE}}

InitDateSlash == Start("FanzineIssueSpecPackage.FanzineDate.Match", DateSlashArgs) \/ Start("FanzineDateTime.FanzineDate.Match", DateSlashArgs)

SpecDateSlash == InitDateSlash /\ [][NextDate]_vars

\* the largest number written in '<n> <p>/<q>'
MaxFractionArg == 4

SerialTexts == {"", "V1#2", "V12 #13b", "V1#2 and more", "Vol 3 #4", "VOL3#4x", "3/4", "XIV/12", "9-12", "#17", "#17a", "17a", "12.5", "issue 12.50", "Fanzine XIV", "foo"}

SerialArgs == {TextArg(NatToStr(n) \o " " \o NatToStr(p) \o "/" \o NatToStr(q), "n p/q", n, p, q, st, co) : n \in 0..MaxFractionArg, p \in 0..MaxFractionArg, q \in 0..MaxFractionArg, st \in BOOLEAN, co \in BOOLEAN} \cup {TextArg(t, "text", 0, 0, 0, st, co) : t \in SerialTexts, st \in BOOLEAN, co \in BOOLEAN}

InitSerial == Start("FanzineSerial.Match", SerialArgs)

CallSerialMatch == /\ pc = "start" /\ op = "FanzineSerial.Match" /\ Return(FanzineSerialMatch(arg.s, arg.strict, arg.complete))

NextSerial == CallSerialMatch

SpecSerial == InitSerial /\ [][NextSerial]_vars

\* the largest number written as a token of digits
MaxWholeArg == 20

IssueTexts == {"", "V1#2", "V12 #13b", "17a", "#17", "Fanzine XIV", "Dec 1967", "March 31, 2005", "12.5", "9-12", "3/4", "foo", "99x 12", "7 1/2"}

IssueArgs == {TextArg(NatToStr(n), "digits", n, 0, 0, st, co) : n \in 0..MaxWholeArg, st \in BOOLEAN, co \in BOOLEAN} \cup {TextArg(NatToStr(y), "digits", y, 0, 0, st, co) : y \in {1967, 2005}, st \in BOOLEAN, co \in BOOLEAN} \cup {TextArg("00" \o NatToStr(n), "digits", n, 0, 0, st, co) : n \in 0..MaxWholeArg, st \in BOOLEAN, co \in BOOLEAN} \cup {TextArg(t, "text", 0, 0, 0, st, co) : t \in IssueTexts, st \in BOOLEAN, co \in BOOLEAN}

InitIssue == Start("FanzineIssueSpec.Match", IssueArgs)

CallIssueSpecMatch == /\ pc = "start" /\ op = "FanzineIssueSpec.Match" /\ Return(FanzineIssueSpecMatch(arg.s, arg.strict, arg.complete))

NextIssue == CallIssueSpecMatch

SpecIssue == InitIssue /\ [][NextIssue]_vars

\* the number of years (from 1967 on), of months and of days the compared
\* dates are built from
MaxCmpField == 2

CmpNumbers(base) == {PyNone} \cup {PyInt(base + n) : n \in 1..MaxCmpField}

\* the dates FanzineDate(Year=, Month=, MonthText=, Day=, DayText=) builds
CmpDates == {FanzineDateInit(y, m, mt, d, dt, None, TRUE) : y \in CmpNumbers(1966), m \in CmpNumbers(0), mt \in {None, Some("Winter")}, d \in CmpNumbers(0), dt \in {None, Some("late")}}

CmpDateArgs == [a : CmpDates, b : CmpDates]

InitDateCmp == Start("FanzineDate.__lt__", CmpDateArgs) \/ Start("FanzineDate.__eq__", CmpDateArgs)

CallDateLt == /\ pc = "start" /\ op = "FanzineDate.__lt__" /\ Return(Ok(FanzineDateLt(arg.a, arg.b)))

CallDateEq == /\ pc = "start" /\ op = "FanzineDate.__eq__" /\ Return(Ok(FanzineDateEq(arg.a, arg.b)))

NextDateCmp == CallDateLt \/ CallDateEq

SpecDateCmp == InitDateCmp /\ [][NextDateCmp]_vars

\* the largest Vol, Num and Whole of the compared serials
MaxCmpSerial == 2

CmpSerialNumbers == {None} \cup {Some(IntNum(n)) : n \in 1..MaxCmpSerial}

\* the serials FanzineSerial(Vol=, Num=, NumSuffix=, Whole=, WSuffix=) builds
CmpSerials == {FanzineSerialInit(v, n, ns, w, ws) : v \in CmpSerialNumbers, n \in CmpSerialNumbers \cup {Some(FloatNum(3, 2))}, ns \in {None, Some("b")}, w \in CmpSerialNumbers, ws \in {None, Some("a"), Some("A")}}

CmpSerialArgs == [a : CmpSerials, b : CmpSerials]

InitSerialCmp == Start("FanzineSerial.__lt__", CmpSerialArgs) \/ Start("FanzineSerial.__eq__", CmpSerialArgs)

CallSerialLt == /\ pc = "start" /\ op = "FanzineSerial.__lt__" /\ Return(Ok(FanzineSerialLt(arg.a, arg.b)))

CallSerialEq == /\ pc = "start" /\ op = "FanzineSerial.__eq__" /\ Return(Ok(FanzineSerialEq(arg.a, arg.b)))

NextSerialCmp == CallSerialLt \/ CallSerialEq

SpecSerialCmp == InitSerialCmp /\ [][NextSerialCmp]_vars

\* the largest Whole of the serials compared three at a time
MaxChainWhole == 2

\* serials with and without Vol, Num and Whole, the empty one among them
ChainSerials == {FanzineSerialInit(v, n, None, w, None) : v \in {None, Some(IntNum(1))}, n \in {None, Some(IntNum(1))}, w \in {None} \cup {Some(IntNum(k)) : k \in 1..MaxChainWhole}}

ChainSerialArgs == [a : ChainSerials, b : ChainSerials, c : ChainSerials]

InitSerialChain == Start("FanzineSerial.__eq__ of three", ChainSerialArgs)

\* a == b, b == c, a == c
CallSerialEqChain == /\ pc = "start" /\ op = "FanzineSerial.__eq__ of three" /\ Return(Ok(<<FanzineSerialEq(arg.a, arg.b), FanzineSerialEq(arg.b, arg.c), FanzineSerialEq(arg.a, arg.c)>>))

NextSerialChain == CallSerialEqChain

SpecSerialChain == InitSerialChain /\ [][NextSerialChain]_vars

\* month texts given alone: names, abbreviations, a season and texts that are no month
InitMonthTexts == {"Dec", "December", "jan", "Feb.", "Sept", "March", "Winter", "foo", "13", ""}

\* FanzineDate(Year=y, MonthText=t, Day=d), and d=FanzineDate(Year=y, Day=d); d.Month=t
DateInitArgs == [s : InitMonthTexts, y : {PyNone, PyInt(1967), PyInt(2005)}, d : {PyNone, PyInt(1), PyInt(15)}, fdt : BOOLEAN]

InitDateInit == Start("FanzineDate.__init__", DateInitArgs) \/ Start("FanzineDate.Month", DateInitArgs)

CallDateInit == /\ pc = "start" /\ op = "FanzineDate.__init__" /\ Return(Ok(FanzineDateInit(arg.y, PyNone, Some(arg.s), arg.d, None, None, arg.fdt)))

CallDateSetMonth == /\ pc = "start" /\ op = "FanzineDate.Month" /\ Return(Ok(FanzineDateSetMonth(FanzineDateInit(arg.y, PyNone, None, arg.d, None, None, arg.fdt), PyStr(arg.s))))

NextDateInit == CallDateInit \/ CallDateSetMonth

SpecDateInit == InitDateInit /\ [][NextDateInit]_vars

\* the dates of the compared IssueSpecs: months and days of one and of two digits
CmpIssueDates == {FanzineDateInit(y, m, None, d, None, None, FALSE) : y \in CmpNumbers(1966), m \in CmpNumbers(0) \cup CmpNumbers(10), d \in CmpNumbers(0) \cup CmpNumbers(28)}

\* FanzineIssueSpec(FD=d) and FanzineIssueSpec(Vol=1, Num=2, FD=d)
CmpIssueSpecs == {FanzineIssueSpecInit(Some(fs), Some(fd)) : fs \in {EmptySerial, FanzineSerialInit(Some(IntNum(1)), Some(IntNum(2)), None, None, None)}, fd \in CmpIssueDates}

CmpIssueArgs == [a : CmpIssueSpecs, b : CmpIssueSpecs]

InitIssueCmp == Start("FanzineIssueSpec.__lt__", CmpIssueArgs) \/ Start("FanzineIssueSpec.FormatDateForSorting", CmpIssueArgs)

CallIssueLt == /\ pc = "start" /\ op = "FanzineIssueSpec.__lt__" /\ Return(Ok(FanzineIssueSpecLt(arg.a, arg.b)))

\* the keys of both IssueSpecs
CallIssueSortKey == /\ pc = "start" /\ op = "FanzineIssueSpec.FormatDateForSorting" /\ Return(Ok(<<FanzineIssueSpecFormatDateForSorting(arg.a), FanzineIssueSpecFormatDateForSorting(arg.b)>>))

NextIssueCmp == CallIssueLt \/ CallIssueSortKey

SpecIssueCmp == InitIssueCmp /\ [][NextIssueCmp]_vars

\* the largest number assigned to a field of an IssueSpec
MaxSetArg == 3

\* the values assigned: ints, a year, an empty str and a str of digits
SetValues == {PyInt(n) : n \in 1..MaxSetArg} \cup {PyInt(1967), PyInt(67), PyStr(""), PyStr("7")}

\* the IssueSpecs assigned to: with and without a serial and a date
SetIssueSpecs == {FanzineIssueSpecInit(Some(fs), Some(fd)) : fs \in {EmptySerial, FanzineSerialInit(Some(IntNum(1)), Some(IntNum(2)), None, Some(IntNum(9)), None)}, fd \in {EmptyDate, FanzineDateInit(PyInt(2005), PyInt(12), None, PyInt(25), None, None, FALSE)}}

SetArgs == [spec : SetIssueSpecs, val : SetValues]

InitIssueSet == \E o \in {"FanzineIssueSpec.Year", "FanzineIssueSpec.Vol", "FanzineIssueSpec.Num", "FanzineIssueSpec.Whole"} : Start(o, SetArgs)

CallSetYear == /\ pc = "start" /\ op = "FanzineIssueSpec.Year" /\ Return(Ok(FanzineIssueSpecSetYear(arg.spec, arg.val)))

CallSetVol == /\ pc = "start" /\ op = "FanzineIssueSpec.Vol" /\ Return(Ok(FanzineIssueSpecSetVol(arg.spec, arg.val)))

CallSetNum == /\ pc = "start" /\ op = "FanzineIssueSpec.Num" /\ Return(Ok(FanzineIssueSpecSetNum(arg.spec, arg.val)))

CallSetWhole == /\ pc = "start" /\ op = "FanzineIssueSpec.Whole" /\ Return(Ok(FanzineIssueSpecSetWhole(arg.spec, arg.val)))

NextIssueSet == CallSetYear \/ CallSetVol \/ CallSetNum \/ CallSetWhole

SpecIssueSet == InitIssueSet /\ [][NextIssueSet]_vars

\* the largest whole part and numerator of the fractional texts
MaxStrArg == 3

\* the largest k of the denominators 2^k of the fractional texts
MaxHalvings == 2

\* "<n> <p>/<q>" with a fraction that str() prints in full, and "<n>.<m>"
StrTexts == {NatToStr(n) \o " " \o NatToStr(p) \o "/" \o NatToStr(2 ^ k) : n \in 0..MaxStrArg, p \in 0..MaxStrArg, k \in 1..MaxHalvings} \cup {NatToStr(n) \o "." \o NatToStr(m) : n \in 0..MaxStrArg, m \in {5, 25}} \cup {"2 3/0"}

StrArgs == {TextArg(t, "text", 0, 0, 0, st, co) : t \in SerialTexts \cup StrTexts, st \in BOOLEAN, co \in BOOLEAN}

InitSerialStr == Start("FanzineSerial.__str__", StrArgs)

\* s=FanzineSerial().Match(text, strict, complete)
StrMatch == /\ pc = "start" /\ op = "FanzineSerial.__str__" /\ pc' = "matched" /\ ret' = FanzineSerialMatch(arg.s, arg.strict, arg.complete) /\ UNCHANGED <<op, arg, tokens, fislist>>

\* the exception of Match ends the run
StrRaise == /\ pc = "matched" /\ ret.exc # "" /\ pc' = "done" /\ UNCHANGED <<op, arg, ret, tokens, fislist>>

\* str(s), and FanzineSerial().Match(str(s))
StrPrintAndMatch(s) == [serial |-> s, text |-> FanzineSerialStr(s), again |-> FanzineSerialMatch(FanzineSerialStr(s), FALSE, FALSE)]

StrPrint == /\ pc = "matched" /\ ret.exc = "" /\ Return(Ok(StrPrintAndMatch(ret.val)))

NextSerialStr == StrMatch \/ StrRaise \/ StrPrint

SpecSerialStr == InitSerialStr /\ [][NextSerialStr]_vars

\* the largest number of comma-separated tokens of the texts built from
\* ListTokens
MaxTokens == 2

ListTokens == {"1", "9-12", "foo-bar", "March 31", "2005", ""}

ListTexts == {"12-9", "1, 5-5", "1-2-3", "1, 9-12, 2005", "9-12, V1#2, foo-bar", "1, foo-bar, 3", "xyz, 3", "Jan 1999, 2007", "1, March 31, 2005, 7", "14A, 7 1/0", "1, 13/45/99", "9 - 12", "1,  , 2"}

\* the largest number written in the range token of '7, a-b, 8'
MaxRangeArg == 3

ListArgs == {TextArg(Join(q, ", "), "tokens", 0, 0, 0, FALSE, FALSE) : q \in UNION {[1..n -> ListTokens] : n \in 1..MaxTokens}} \cup {TextArg("7, " \o NatToStr(a) \o "-" \o NatToStr(b) \o ", 8", "7, a-b, 8", a, b, 0, FALSE, FALSE) : a \in 0..MaxRangeArg, b \in 0..MaxRangeArg} \cup {TextArg(t, "text", 0, 0, 0, st, co) : t \in ListTexts, st \in BOOLEAN, co \in BOOLEAN}

InitList == Start("FanzineIssueSpecList.Match", ListArgs)

\* fislist=[]; tokens=[t.strip() for t in s.split(",")]
ListSplit == /\ pc = "start" /\ op = "FanzineIssueSpecList.Match" /\ pc' = "loop" /\ tokens' = SplitTokens(arg.s) /\ fislist' = <<>> /\ UNCHANGED <<op, arg, ret>>

\* the outcome of the pass over the tokens left
ThisPass == LoopOutcome(tokens, arg.strict, arg.complete)

\* a pass of the loop "while len(tokens) > 0" with the outcome o: the
\* IssueSpecs of the pass are appended and n tokens deleted
LoopPass(o, kind, n) == /\ pc = "loop" /\ tokens # <<>> /\ o.kind = kind /\ fislist' = fislist \o o.add /\ tokens' = SubSeq(tokens, n + 1, Len(tokens)) /\ UNCHANGED <<pc, op, arg, ret>>

\* a pass of the loop that leaves Match with the result r
LoopExit(o, kind, r) == /\ pc = "loop" /\ tokens # <<>> /\ o.kind = kind /\ pc' = "done" /\ ret' = r /\ UNCHANGED <<op, arg, tokens, fislist>>

\* the rejoined tokens matched: fislist.append(fis); del tokens[0:1]; continue
ListJoined == LoopPass(ThisPass, "joined", 1)

\* a refused range token: return cls()
ListAbort == LoopExit(ThisPass, "abort", Ok(<<>>))

\* a range token: the IssueSpecs of the range; del tokens[0]; continue
ListRange == LoopPass(ThisPass, "range", 1)

\* the pass that appends a single issue without deleting its token
ListSingleKeep == LoopPass(ThisPass, "single", 0)

\* a single token matched: fislist.append(fis); del tokens[0]; continue
ListSingle == LoopPass(ThisPass, "single", 1)

\* "Nothing worked": the token is logged and ignored; del tokens[0]
ListIgnore == LoopPass(ThisPass, "ignore", 1)

\* an exception leaves Match
ListRaise == LoopExit(ThisPass, "raise", Raise(ThisPass.exc, <<>>))

\* "We have consumed the whole input": return cls(List=fislist)
ListReturn == /\ pc = "loop" /\ tokens = <<>> /\ pc' = "done" /\ ret' = Ok(fislist) /\ UNCHANGED <<op, arg, tokens, fislist>>

NextList == ListSplit \/ ListJoined \/ ListAbort \/ ListRange \/ ListSingle \/ ListIgnore \/ ListRaise \/ ListReturn

SpecList == InitList /\ [][NextList]_vars

\* BoundDay reaches one of its while loops: neither an early return nor "the normal case"
BoundDayLoops(d, m) == d # None /\ m # None /\ Val(d) >= DayTypoLow /\ Val(d) <= DayTypoHigh /\ (Val(d) < 1 \/ (MonthLength(Val(m)) # None /\ Val(d) > Val(MonthLength(Val(m)))))

\* m=m-1; if m < 1: m=12
BackMonth(m) == IF m - 1 < 1 THEN 12 ELSE m - 1

\* y=y-1 with y None, or d+MonthLength(m) with no such month, is a TypeError
BackFails(t) == (t[2] - 1 < 1 /\ t[3] = None) \/ MonthLength(BackMonth(t[2])) = None

\* one pass of "while d < 1" over t = (d, m, y)
BackOnce(t) == <<t[1] + Val(MonthLength(BackMonth(t[2]))), BackMonth(t[2]), IF t[2] - 1 < 1 THEN Some(Val(t[3]) - 1) ELSE t[3]>>

\* y=y+1 with y None is a TypeError
ForwardFails(t) == t[2] + 1 > 12 /\ t[3] = None

\* one pass of "while d > MonthLength(m)" over t = (d, m, y)
ForwardOnce(t) == <<t[1] - Val(MonthLength(t[2])), IF t[2] + 1 > 12 THEN 1 ELSE t[2] + 1, IF t[2] + 1 > 12 THEN Some(Val(t[3]) + 1) ELSE t[3]>>

InitBoundLoop == Start("BoundDay.while", BoundDayArgs)

\* the returns before the loops
BoundReturn == /\ pc = "start" /\ op = "BoundDay.while" /\ ~BoundDayLoops(arg.d, arg.m) /\ Return(BoundDay(arg.d, arg.m, arg.y))

\* "if d < 1:" enters the first loop, otherwise the second is reached; ret holds (d, m, y)
BoundEnter == /\ pc = "start" /\ op = "BoundDay.while" /\ BoundDayLoops(arg.d, arg.m) /\ pc' = (IF Val(arg.d) < 1 THEN "back" ELSE "forward") /\ ret' = Ok(<<Val(arg.d), Val(arg.m), arg.y>>) /\ UNCHANGED <<op, arg, tokens, fislist>>

BackStep == /\ pc = "back" /\ ret.val[1] < 1 /\ ~BackFails(ret.val) /\ ret' = Ok(BackOnce(ret.val)) /\ UNCHANGED <<pc, op, arg, tokens, fislist>>

BackRaise == /\ pc = "back" /\ ret.val[1] < 1 /\ BackFails(ret.val) /\ Return(Raise("TypeError", <<None, None, None>>))

BackExit == /\ pc = "back" /\ ~(ret.val[1] < 1) /\ Return(Ok(<<Some(ret.val[1]), Some(ret.val[2]), ret.val[3]>>))

ForwardStep == /\ pc = "forward" /\ ret.val[1] > Val(MonthLength(ret.val[2])) /\ ~ForwardFails(ret.val) /\ ret' = Ok(ForwardOnce(ret.val)) /\ UNCHANGED <<pc, op, arg, tokens, fislist>>

ForwardRaise == /\ pc = "forward" /\ ret.val[1] > Val(MonthLength(ret.val[2])) /\ ForwardFails(ret.val) /\ Return(Raise("TypeError", <<None, None, None>>))

ForwardExit == /\ pc = "forward" /\ ~(ret.val[1] > Val(MonthLength(ret.val[2]))) /\ Return(Ok(<<Some(ret.val[1]), Some(ret.val[2]), ret.val[3]>>))

NextBoundLoop == BoundReturn \/ BoundEnter \/ BackStep \/ BackRaise \/ BackExit \/ ForwardStep \/ ForwardRaise \/ ForwardExit

InitLoops == InitList \/ InitBoundLoop

NextLoops == NextList \/ NextBoundLoop

SpecLoops == InitLoops /\ [][NextLoops]_vars

----------------------------------------------------------------------------
(* Claims                                                                  *)

\* the month lengths the Day Bounder is specified with: February 28, April,
\* June, September and November 30, the rest 31
DaysInMonth(m) == IF m = 2 THEN 28 ELSE IF m \in {4, 6, 9, 11} THEN 30 ELSE 31

C6_Accepted == /\ pc = "done" /\ op = "BoundDay" /\ arg.d # None /\ arg.m # None /\ arg.y # None /\ Val(arg.d) \in (0 - 10)..60 /\ Val(arg.m) \in 1..12

\* C6: for every month in 1..12, every year and every day in -10..60, BoundDay
\* returns a triple (d', m', y') with 1 <= m' <= 12 and 1 <= d' <= MonthLength(m')
C6_BoundDayInMonth == C6_Accepted => (/\ ret.exc = "" /\ ret.val[1] # None /\ ret.val[2] # None /\ Val(ret.val[2]) \in 1..12 /\ 1 <= Val(ret.val[1]) /\ Val(ret.val[1]) <= DaysInMonth(Val(ret.val[2])))

\* day 60 of February rolls over two months, to April 1
C6_Witness == C6_Accepted /\ arg.d = Some(60) /\ arg.m = Some(2) /\ ret.val = <<Some(1), Some(4), arg.y>>

C7_Called == pc = "done" /\ op = "YearAs4Digits" /\ arg.t = "int"

\* C7: YearAs4Digits on an integer v returns v when v > 100, 2000+v when v < 33
\* and 1900+v otherwise; applied to its own result for a four-digit year it
\* returns that result again
C7_YearAs4Digits == C7_Called => (/\ ret.exc = "" /\ (arg.i > 100 => ret.val = PyInt(arg.i)) /\ (arg.i < 33 => ret.val = PyInt(2000 + arg.i)) /\ (arg.i \in 33..100 => ret.val = PyInt(1900 + arg.i)) /\ (arg.i \in 1000..9999 => YearAs4Digits(ret.val) = ret.val))

\* the two-digit year 32 is expanded to 2032
C7_Witness == C7_Called /\ arg.i = 32 /\ ret.val = PyInt(2032)

\* C8: ValidFannishYear, for every text input, returns the expanded year when it
\* lies strictly between 1860 and 2100 or the sentinel "0", and never raises
C8_ValidFannishYearNeverRaises == (pc = "done" /\ op = "ValidFannishYear" /\ arg.t = "str") => (/\ ret.exc = "" /\ (ret.val = "0" \/ (IsDigitStr(ret.val) /\ StrToNat(ret.val) > 1860 /\ StrToNat(ret.val) < 2100)))

\* the IssueSpec of the whole number k: the serial holds it and nothing else,
\* the date is empty
IsWhole(fis, k) == /\ fis.FS.Whole = Some(IntNum(k)) /\ fis.FS.Vol = None /\ fis.FS.Num = None /\ fis.FS.NumSuffix = "" /\ fis.FS.WSuffix = "" /\ FanzineDateIsEmpty(fis.FD)

\* list begins with the elements of head, in their order
IsPrefix(list, head) == /\ Len(head) <= Len(list) /\ \A i \in 1..Len(head) : list[i] = head[i]

\* the pass of the list parser is over a token with a hyphen that is not an
\* increasing integer range
C1_BadHyphenToken == /\ pc = "loop" /\ tokens # <<>> /\ Contains(tokens[1], "-") /\ BadRange(tokens[1])

\* C1: a token with a hyphen that is not an increasing integer range is
\* discarded alone: the pass deletes that token only, parsing goes on, and the
\* IssueSpecs accumulated from earlier tokens are kept
C1_BadTokenDiscardedAlone == [][C1_BadHyphenToken => (/\ pc' = "loop" /\ tokens' = Tail(tokens) /\ IsPrefix(fislist', fislist))]_vars

\* token 0 starts with a month name, token 1 is four digits and the rejoined
\* text matches as a strict, complete date
C2_PairMatches == /\ pc = "loop" /\ Len(tokens) > 1 /\ JoinApplies(tokens) /\ ThisPass.kind = "joined"

\* C2: when the rejoined leading tokens match as a date, both tokens are
\* consumed and the result gains exactly one IssueSpec, the date
C2_BothTokensConsumed == [][C2_PairMatches => (/\ tokens' = SubSeq(tokens, 3, Len(tokens)) /\ Len(fislist') = Len(fislist) + 1 /\ IsPrefix(fislist', fislist) /\ ~FanzineDateIsEmpty(fislist'[Len(fislist')].FD))]_vars

\* the pass appends the wholes a..b, in ascending order, after the IssueSpecs
\* of the earlier tokens, and goes on with the later tokens
C3_Appends(a, b) == /\ pc' = "loop" /\ tokens' = Tail(tokens) /\ Len(fislist') = Len(fislist) + (b - a + 1) /\ IsPrefix(fislist', fislist) /\ \A k \in a..b : IsWhole(fislist'[Len(fislist) + (k - a) + 1], k)

\* C3: a pass over a token 'a-b' with integers a < b appends exactly b-a+1
\* IssueSpecs with the whole numbers a, a+1, ..., b in ascending order, each
\* with an empty date, after the IssueSpecs of the earlier tokens
C3_RangeExpanded == [][\A a \in 0..12, b \in 0..12 : (pc = "loop" /\ tokens # <<>> /\ a < b /\ tokens[1] = NatToStr(a) \o "-" \o NatToStr(b)) => C3_Appends(a, b)]_vars

\* '1, 9-12, 2005' yields the wholes 1, then 9, 10, 11, 12, then 2005
C3_Witness == /\ pc = "done" /\ arg.s = "1, 9-12, 2005" /\ ret.exc = "" /\ Len(ret.val) = 6 /\ IsWhole(ret.val[1], 1) /\ IsWhole(ret.val[2], 9) /\ IsWhole(ret.val[3], 10) /\ IsWhole(ret.val[4], 11) /\ IsWhole(ret.val[5], 12) /\ IsWhole(ret.val[6], 2005)

\* FanzineDate.Match of FanzineDateTime.py has returned from '<month> <day>,
\* 1967' with a day beyond the length of the month and at most 60
C4_DayBeyondMonth == /\ pc = "done" /\ op = "FanzineDateTime.FanzineDate.Match" /\ arg.form = "month day, year" /\ arg.b > DaysInMonth(arg.a) /\ arg.b <= 60

\* C4: for '<month> <day>, <year>' with a day beyond the length of the month
\* and at most 60, the Date Matcher returns the date BoundDay normalizes it to
C4_DayBounded == C4_DayBeyondMonth => (/\ ret.exc = "" /\ <<ret.val.Day, ret.val.Month, ret.val.Year>> = BoundDay(Some(arg.b), Some(arg.a), Some(arg.c)).val)

\* C5: for 'Winter yyyy-yy' and 'yyyy-yy' with yy the last two digits of
\* yyyy+1, the Date Matcher returns month 1 and year yyyy+1
C5_JanuaryOfSecondYear == (pc = "done" /\ op = "FanzineIssueSpecPackage.FanzineDate.Match" /\ arg.form \in {"Winter yyyy-yy", "yyyy-yy"}) => (/\ ret.exc = "" /\ ret.val.Year = Some(arg.a + 1) /\ ret.val.Month = Some(1))

\* C9: the Date Matcher returns a date for every input and never raises
C9_DateMatchNeverRaises == (pc = "done" /\ op \in {"FanzineIssueSpecPackage.FanzineDate.Match", "FanzineDateTime.FanzineDate.Match"}) => ret.exc = ""

\* C10: the Serial Matcher returns a serial for every input and never raises
C10_SerialMatchNeverRaises == (pc = "done" /\ op = "FanzineSerial.Match") => ret.exc = ""

\* C11: the list parser returns a list for every input and never raises, also
\* when an empty token is followed by further tokens
C11_ListMatchNeverRaises == (pc = "done" /\ op = "FanzineIssueSpecList.Match") => ret.exc = ""

\* FanzineIssueSpec.Match has returned from a token made of digits only
C12_DigitsToken == /\ pc = "done" /\ op = "FanzineIssueSpec.Match" /\ arg.form = "digits"

\* C12: on a token of digits only, FanzineIssueSpec.Match returns an IssueSpec
\* whose serial holds the token's integer value as its whole number and
\* nothing else, and whose date is empty, four-digit years included
C12_DigitsAreWhole == C12_DigitsToken => (ret.exc = "" /\ IsWhole(ret.val, arg.a))

\* the token 2005, a fannish year, gives the whole number 2005
C12_Witness == C12_DigitsToken /\ arg.s = "2005" /\ IsWhole(ret.val, 2005) /\ ret.val.FD.Year = None

\* the fallbacks in the order stated: (b) the date, strict and complete; (c)
\* the serial, complete, with the caller's strict flag; (d) the serial with no
\* completeness requirement; (e) the empty IssueSpec
C13_Fallbacks(s, strict) == IF ~FanzineDateIsEmpty(FanzineDateMatch(s, FALSE).val) THEN FanzineIssueSpecInit(None, Some(FanzineDateMatch(s, FALSE).val)) ELSE IF ~FanzineSerialIsEmpty(FanzineSerialMatch(s, strict, TRUE).val) THEN FanzineIssueSpecInit(Some(FanzineSerialMatch(s, strict, TRUE).val), None) ELSE FanzineIssueSpecInit(Some(FanzineSerialMatch(s, FALSE, FALSE).val), None)

\* C13: on a token that is not digits only, FanzineIssueSpec.Match returns the
\* first non-empty result of the date matcher (strict, complete), the serial
\* matcher (complete, caller's strict flag) and the serial matcher without the
\* completeness requirement whatever complete flag was passed, else the empty
\* IssueSpec; never both a date and a serial
C13_FallbackOrder == (pc = "done" /\ op = "FanzineIssueSpec.Match" /\ arg.form = "text") => (/\ ret.exc = "" /\ ret.val = C13_Fallbacks(arg.s, arg.strict) /\ (FanzineDateIsEmpty(ret.val.FD) \/ FanzineSerialIsEmpty(ret.val.FS)))

\* x is below y at one field: x is undefined and y defined, or both are
\* defined and x's value is the smaller
C14_FieldLess(x, y) == IF x = None THEN y # None ELSE y # None /\ Val(x) < Val(y)

\* the strict order on (year, month, day): decided at the first field on which
\* the two dates differ
C14_Less(a, b) == IF a.Year # b.Year THEN C14_FieldLess(a.Year, b.Year) ELSE IF a.Month # b.Month THEN C14_FieldLess(a.Month, b.Month) ELSE IF a.Day # b.Day THEN C14_FieldLess(a.Day, b.Day) ELSE FALSE

\* C14: a < b of two dates holds exactly when, at the first of year, month and
\* day on which they differ, a's field is undefined and b's defined or a's
\* value is smaller; it is false when all three tie, so a < a is false and
\* a < b and b < a never hold together
C14_DateOrderStrict == (pc = "done" /\ op = "FanzineDate.__lt__") => (/\ ret.val = C14_Less(arg.a, arg.b) /\ ~(FanzineDateLt(arg.a, arg.b) /\ FanzineDateLt(arg.b, arg.a)))

\* the date has one of year, month and day
C18_HasNumber(d) == d.Year # None \/ d.Month # None \/ d.Day # None

\* the date with its month text, day text and month-day text removed
C18_NoTexts(d) == [d EXCEPT !.MonthText = None, !.DayText = None, !.MonthDayText = None]

\* C18: a == b of two dates holds exactly when both are empty, or both have
\* one of year, month and day and the three are pairwise equal; the texts of
\* dates that have a numeric field do not change the outcome
C18_DateEquality == (pc = "done" /\ op = "FanzineDate.__eq__") => (/\ ret.val = ((FanzineDateIsEmpty(arg.a) /\ FanzineDateIsEmpty(arg.b)) \/ (C18_HasNumber(arg.a) /\ C18_HasNumber(arg.b) /\ arg.a.Year = arg.b.Year /\ arg.a.Month = arg.b.Month /\ arg.a.Day = arg.b.Day)) /\ ((C18_HasNumber(arg.a) /\ C18_HasNumber(arg.b)) => ret.val = FanzineDateEq(C18_NoTexts(arg.a), C18_NoTexts(arg.b))))

\* two dates with the same numbers and different month texts are equal
C18_Witness == /\ pc = "done" /\ op = "FanzineDate.__eq__" /\ ret.val = TRUE /\ arg.a.Year = Some(1967) /\ arg.a.Month = Some(1) /\ arg.a.MonthText = Some("Winter") /\ arg.b.MonthText = None

\* the suffix rule the order is held to on equal wholes: "no suffix" ranks
\* below "has a suffix"; two suffixes are left to the code
C16_SuffixLess(a, b, codeSays) == IF b.WSuffix = "" THEN FALSE ELSE IF a.WSuffix = "" THEN TRUE ELSE codeSays

\* the num rule on equal vols: an undefined num ranks below any defined num,
\* two defined nums compare numerically
C16_NumLess(a, b) == IF b.Num = None THEN FALSE ELSE IF a.Num = None THEN TRUE ELSE Val(a.Num).n * Val(b.Num).d < Val(b.Num).n * Val(a.Num).d

\* a < b by whole and suffix
C16_ByWhole(a, b, codeSays) == IF Val(a.Whole).n # Val(b.Whole).n THEN Val(a.Whole).n < Val(b.Whole).n ELSE C16_SuffixLess(a, b, codeSays)

\* a < b by vol and then num
C16_ByVolNum(a, b) == IF Val(a.Vol).n # Val(b.Vol).n THEN Val(a.Vol).n < Val(b.Vol).n ELSE C16_NumLess(a, b)

\* the pairs the rule decides: both wholes defined, or a whole undefined and
\* both vols defined
C16_Decided(a, b) == (a.Whole # None /\ b.Whole # None) \/ (a.Vol # None /\ b.Vol # None)

C16_Less(a, b, codeSays) == IF a.Whole # None /\ b.Whole # None THEN C16_ByWhole(a, b, codeSays) ELSE C16_ByVolNum(a, b)

\* C16: when both wholes are defined a < b is decided by whole and, on equal
\* wholes, by suffix with no suffix below a suffix; when a whole is undefined
\* it is decided by vol and then num, an undefined num below any defined num
\* and two defined nums compared numerically (V1#2 < V1#3)
C16_SerialOrder == (pc = "done" /\ op = "FanzineSerial.__lt__" /\ C16_Decided(arg.a, arg.b)) => ret.val = C16_Less(arg.a, arg.b, ret.val)

\* vol, num and num suffix match
C17_VolNumMatch(a, b) == NumEq(a.Vol, b.Vol) /\ NumEq(a.Num, b.Num) /\ ToLower(a.NumSuffix) = ToLower(b.NumSuffix)

\* whole and whole suffix match
C17_WholeMatch(a, b) == NumEq(a.Whole, b.Whole) /\ ToLower(a.WSuffix) = ToLower(b.WSuffix)

\* the three tiers
C17_ThreeTier(a, b) == \/ (a.Whole # None /\ b.Whole # None /\ C17_WholeMatch(a, b)) \/ (C17_WholeMatch(a, b) /\ C17_VolNumMatch(a, b)) \/ ((a.Whole = None \/ b.Whole = None) /\ C17_VolNumMatch(a, b))

\* both wholes are defined and differ
C17_WholesDiffer(a, b) == a.Whole # None /\ b.Whole # None /\ ~NumEq(a.Whole, b.Whole)

C20_MonthFromText == (pc = "done" /\ op \in {"FanzineDate.__init__", "FanzineDate.Month"} /\ InterpretMonth(PyStr(arg.s)) # None) => ret.val.Month = InterpretMonth(PyStr(arg.s))

\* C15: for any two IssueSpecs a and b, a < b holds exactly when a's sort key
\* is lexicographically smaller than b's
C15_SortKeyAgreesWithLess == (pc = "done" /\ op = "FanzineIssueSpec.__lt__") => ret.val = StrLess(FanzineIssueSpecFormatDateForSorting(arg.a), FanzineIssueSpecFormatDateForSorting(arg.b))

\* C19: for every non-empty Serial s the Serial Matcher produces, str(s) is
\* itself recognized as a non-empty Serial and formatting that Serial gives
\* str(s) again
C19_SerialRoundTrip == (pc = "done" /\ op = "FanzineSerial.__str__" /\ ret.exc = "" /\ ~FanzineSerialIsEmpty(ret.val.serial)) => (ret.val.again.exc = "" /\ ~FanzineSerialIsEmpty(ret.val.again.val) /\ FanzineSerialStr(ret.val.again.val) = ret.val.text)

\* text occurs in s
C21_HasText(s, text) == \E i \in 1..(Len(s) - Len(text) + 1) : SubSeq(s, i, i + Len(text) - 1) = text

\* C21: for '<month1>-<month2> <yyyy>' or '<month1>/<month2> <yyyy>', with or
\* without spaces around the separator, the date has year yyyy, the month of
\* month1, and both month names in its month text
C21_FirstMonthOfPair == (pc = "done" /\ arg.form = "month1-month2 yyyy") => (ret.exc = "" /\ ret.val.Year = Some(arg.c) /\ ret.val.Month = Some(arg.a) /\ ret.val.MonthText # None /\ C21_HasText(Val(ret.val.MonthText), PairMonths[arg.a]) /\ C21_HasText(Val(ret.val.MonthText), PairMonths[arg.b]))

\* d is a day of month m
C22_ValidDay(d, m) == m \in 1..12 /\ d \in 1..DaysInMonth(m)

\* the date is y-m-d
C22_Is(r, y, m, d) == r.exc = "" /\ r.val.Year = Some(y) /\ r.val.Month = Some(m) /\ r.val.Day = Some(d)

\* C22: for 'a/b/y' the US order is tried first: if b is a valid day of month
\* a the result is month a, day b; otherwise, if a is a valid day of month b,
\* it is month b, day a; the stored year is the expansion of y
C22_UsOrderFirst == (pc = "done" /\ op = "FanzineDateTime.FanzineDate.Match" /\ arg.form = "a/b/yyyy") => IF C22_ValidDay(arg.b, arg.a) THEN C22_Is(ret, arg.c, arg.a, arg.b) ELSE (C22_ValidDay(arg.a, arg.b) => C22_Is(ret, arg.c, arg.b, arg.a))

\* the serial forms, each taken to span the whole text
C23_Grammars == {Re(P_VNum.items, TRUE), P_VolNum, P_WholeFraction, P_VolSlashNum, P_RomanSlashNum, P_WholeRange, P_HashWhole, Re(Tail(P_Decimal.items), TRUE)}

\* the whole text is one serial form
C23_WholeConsumed(t) == \E p \in C23_Grammars : ReMatch(p, t).ok

\* C23: with complete=True the Serial Matcher returns a non-empty Serial only
\* when the whole trimmed input is consumed by the matching grammar
C23_CompleteConsumesAll == (pc = "done" /\ op = "FanzineSerial.Match" /\ arg.complete /\ ret.exc = "" /\ ~FanzineSerialIsEmpty(ret.val)) => C23_WholeConsumed(Strip(arg.s))

\* a field of a date with an absent field read as 0
C24_Field(d, f) == IF d[f] = None THEN 0 ELSE Val(d[f])

\* the triple (year, month, day) of a is smaller than that of b
C24_TripleLess(a, b) == \/ C24_Field(a, "Year") < C24_Field(b, "Year") \/ (C24_Field(a, "Year") = C24_Field(b, "Year") /\ C24_Field(a, "Month") < C24_Field(b, "Month")) \/ (C24_Field(a, "Year") = C24_Field(b, "Year") /\ C24_Field(a, "Month") = C24_Field(b, "Month") /\ C24_Field(a, "Day") < C24_Field(b, "Day"))

\* C24: the sort key of date a is lexicographically smaller than that of b
\* exactly when the triple (year, month, day) of a, absent fields read as 0,
\* is smaller than that of b
C24_SortKeyChronological == (pc = "done" /\ op = "FanzineIssueSpec.FormatDateForSorting") => (StrLess(ret.val[1], ret.val[2]) = C24_TripleLess(arg.a.FD, arg.b.FD))

\* the keys of a date in a month of one digit and of the same year's date in
\* a month of two digits were formatted, the first without a day
C24_Witness == pc = "done" /\ op = "FanzineIssueSpec.FormatDateForSorting" /\ arg.a.FD.Year = arg.b.FD.Year /\ arg.a.FD.Year # None /\ arg.a.FD.Month = Some(2) /\ arg.b.FD.Month = Some(11) /\ arg.a.FD.Day = None /\ StrLess(ret.val[1], ret.val[2])

\* a pass of the token loop that stays in the loop leaves fewer tokens, and a
\* pass of a rollover loop moves the day by a month's length towards 1..31
C25_Progress == /\ ((pc = "loop" /\ pc' = "loop") => Len(tokens') < Len(tokens)) /\ ((pc = "back" /\ pc' = "back") => ret'.val[1] >= ret.val[1] + 28) /\ ((pc = "forward" /\ pc' = "forward") => ret'.val[1] <= ret.val[1] - 28)

\* some step of the code applies: the loop has a branch for the tokens at hand
C25_CanStep == \/ pc \in {"start", "back", "forward"} \/ (pc = "loop" /\ (tokens = <<>> \/ ThisPass.kind \in {"joined", "abort", "range", "single", "ignore", "raise"}))

\* C25: IssueSpecList parsing and BoundDay terminate: every pass of the token
\* loop removes a token or returns, every pass of a rollover loop brings the
\* day a month closer, and no run stops before its end
C25_LoopsTerminate == [](pc = "done" \/ C25_CanStep) /\ [][C25_Progress]_vars

\* a list of three tokens was parsed to its end
C25_Witness == pc = "done" /\ op = "FanzineIssueSpecList.Match" /\ Len(SplitTokens(arg.s)) = 3 /\ ret.exc = "" /\ Len(ret.val) >= 2

\* the stepwise BoundDay returns what BoundDay returns
C25_LoopIsBoundDay == (pc = "done" /\ op = "BoundDay.while") => ret = BoundDay(arg.d, arg.m, arg.y)

\* the days of the 365-day year before month m
C26_DaysBefore(m) == <<0, 31, 59, 90, 120, 151, 181, 212, 243, 273, 304, 334>>[m]

\* the number of day d of month m of year y
C26_AbsoluteDay(d, m, y) == 365 * y + C26_DaysBefore(m) + d

\* C26: for every accepted input (day in -10..60, month in 1..12, year y)
\* BoundDay returns the same absolute day of the 365-day calendar, and an
\* input already within its month unchanged
C26_AbsoluteDayPreserved == C6_Accepted => (/\ ret.exc = "" /\ ret.val[1] # None /\ ret.val[2] # None /\ ret.val[3] # None /\ C26_AbsoluteDay(Val(ret.val[1]), Val(ret.val[2]), Val(ret.val[3])) = C26_AbsoluteDay(Val(arg.d), Val(arg.m), Val(arg.y)) /\ (Val(arg.d) \in 1..DaysInMonth(Val(arg.m)) => ret.val = <<arg.d, arg.m, arg.y>>))

\* day 60 of February was moved two months on, and day -10 of January into
\* the year before
C26_Witness == C6_Accepted /\ ((Val(arg.d) = 60 /\ Val(arg.m) = 2 /\ ret.val[2] = Some(4)) \/ (Val(arg.d) = 0 - 10 /\ Val(arg.m) = 1 /\ ret.val[3] = Some(Val(arg.y) - 1)))

\* the only defined field of s is its whole
C27_WholeOnly(s) == s.Whole # None /\ s.Vol = None /\ s.Num = None /\ s.NumSuffix = "" /\ s.WSuffix = ""

\* C27: Serial equality is transitive, a == b and b == c imply a == c, and a
\* Serial whose only defined field is whole is not equal to the empty Serial
C27_EqualityTransitive == (pc = "done" /\ op = "FanzineSerial.__eq__ of three") => (((ret.val[1] /\ ret.val[2]) => ret.val[3]) /\ ((C27_WholeOnly(arg.a) /\ FanzineSerialIsEmpty(arg.b)) => ~ret.val[1]))

\* C28: every FanzineDate d satisfies d == d, including non-empty dates that
\* carry only month text or day text and no numeric year, month or day
C28_DateEqualityReflexive == (pc = "done" /\ op = "FanzineDate.__eq__" /\ arg.a = arg.b) => ret.val = TRUE

\* y lies in the fannish range, 1860..2100 exclusive
C29_Fannish(y) == FannishYearLow < y /\ y < FannishYearHigh

\* C29: in strict+complete mode the Date Matcher never returns a date whose
\* year differs from the expanded year written in the input or lies outside
\* the fannish range; for 'a/b/yyyy' and '<month> yyyy' inputs whose year is
\* outside that range the result is an empty date
C29_YearGuarded == (pc = "done" /\ arg.form \in {"a/b/yyyy", "month yyyy"} /\ arg.strict /\ arg.complete /\ ret.exc = "") => (/\ (ret.val.Year # None => (ret.val.Year = Some(arg.c) /\ C29_Fannish(arg.c))) /\ (~C29_Fannish(arg.c) => FanzineDateIsEmpty(ret.val)))

\* the field of the serial a setter is named after
C30_Field(o) == IF o = "FanzineIssueSpec.Vol" THEN "Vol" ELSE IF o = "FanzineIssueSpec.Num" THEN "Num" ELSE "Whole"

\* after spec.Year = y the year of the date is the normalized y and the serial is unchanged
C30_YearWritten == ret.val.FD.Year = FanzineDateSetYear(EmptyDate, arg.val).Year /\ ret.val.FS = arg.spec.FS

\* after an int is assigned to spec.Vol, spec.Num or spec.Whole the getter returns it, and the date is unchanged
C30_NumberWritten == (arg.val.t = "int" => ret.val.FS[C30_Field(op)] = Some(IntNum(arg.val.i))) /\ ret.val.FD = arg.spec.FD

\* C30: FanzineIssueSpec field setters write through to the matching
\* sub-value and nothing else: spec.Year = y sets the date's year to the
\* normalized y and leaves the serial unchanged; spec.Vol, spec.Num and
\* spec.Whole set the serial's field and leave the date unchanged
C30_SettersWriteThrough == pc = "done" => IF op = "FanzineIssueSpec.Year" THEN C30_YearWritten ELSE C30_NumberWritten

====
